---- MODULE Spec2Model ----
(***************************************************************************)
(* Racoon NOS control plane: the CONFIG -> APPL -> ASIC reconciliation     *)
(* chain for VLANs.  An external configurator writes VLAN|Vlan<id> records *)
(* to Config and announces them on CONFIG_DB:VLAN; orchd (VlanOrch)        *)
(* projects them to VLAN_TABLE:<name> in Appl and announces on VLAN_TABLE; *)
(* syncd (VlanSync) programs the vendor library and mirrors the realized   *)
(* object into ASIC_STATE:SAI_OBJECT_TYPE_VLAN:0x<oid> in Asic.            *)
(*                                                                         *)
(* Strings that the code takes apart (keys, names, numbers in names) are   *)
(* sequences of one-character strings; Option<T> is <<>> or <<x>>.         *)
(***************************************************************************)
EXTENDS Integers, Sequences, FiniteSets, TLC

\* ------------------------------------------------------------------ bounds
\* operations the external configurator performs in one run
MaxOps == 3
\* store or vendor calls that fail in one run
MaxFaults == 1
\* daemon crashes (each followed by a restart) in one run
MaxCrashes == 1

\* --------------------------------------------------------- program constants
MIN_VLAN_ID == 1
MAX_VLAN_ID == 4094
U16_MAX == 65535

\* ------------------------------------------------------------ text helpers
DigitChars == <<"0", "1", "2", "3", "4", "5", "6", "7", "8", "9">>
HexChars == DigitChars \o <<"a", "b", "c", "d", "e", "f">>

RECURSIVE Dec(_)
\* format!("{}", n) for an unsigned integer
Dec(n) == IF n < 10 THEN <<DigitChars[n + 1]>>
          ELSE Dec(n \div 10) \o <<DigitChars[(n % 10) + 1]>>

RECURSIVE Hex(_)
\* format!("{:x}", n)
Hex(n) == IF n < 16 THEN <<HexChars[n + 1]>>
          ELSE Hex(n \div 16) \o <<HexChars[(n % 16) + 1]>>

IsDigit(c) == \E i \in 1..10 : DigitChars[i] = c
DigitVal(c) == (CHOOSE i \in 1..10 : DigitChars[i] = c) - 1

RECURSIVE ParseDigits(_, _)
\* accumulates decimal digits left to right; <<>> on a non-digit or on u16 overflow
ParseDigits(s, acc) ==
    IF s = <<>> THEN <<acc>>
    ELSE IF ~IsDigit(Head(s)) THEN <<>>
    ELSE LET v == acc * 10 + DigitVal(Head(s))
         IN  IF v > U16_MAX THEN <<>> ELSE ParseDigits(Tail(s), v)

\* str::parse::<u16>(): Some(value) or None; an optional leading '+', at least one digit
ParseU16(s) ==
    LET body == IF s # <<>> /\ Head(s) = "+" THEN Tail(s) ELSE s
    IN  IF body = <<>> THEN <<>> ELSE ParseDigits(body, 0)

\* str::strip_prefix: Some(rest) or None
StripPrefix(s, p) ==
    IF Len(s) >= Len(p) /\ SubSeq(s, 1, Len(p)) = p
    THEN <<SubSeq(s, Len(p) + 1, Len(s))>>
    ELSE <<>>

\* ------------------------------------------------------------- key formats
VLAN_PREFIX == <<"V", "l", "a", "n">>
CONFIG_VLAN_PREFIX == <<"V", "L", "A", "N", "|">>
APPL_VLAN_PREFIX == <<"V", "L", "A", "N", "_", "T", "A", "B", "L", "E", ":">>
SAI_OBJECT_TYPE_VLAN ==
    <<"S", "A", "I", "_", "O", "B", "J", "E", "C", "T", "_", "T", "Y", "P", "E", "_", "V", "L", "A", "N">>
ASIC_VLAN_PREFIX ==
    <<"A", "S", "I", "C", "_", "S", "T", "A", "T", "E", ":">> \o SAI_OBJECT_TYPE_VLAN \o <<":">>

\* keys::vlan: "Vlan{id}"
VlanName(id) == VLAN_PREFIX \o Dec(id)
\* format!("VLAN|{}", vlan_name)
ConfigKey(name) == CONFIG_VLAN_PREFIX \o name
\* format!("VLAN_TABLE:{}", vlan_name)
\* faulty variant: the Appl key is the bare name, without the table prefix
ApplKey_NoTable(name) == name
ApplKey(name) == APPL_VLAN_PREFIX \o name
\* format!("0x{:x}", vlan_oid)
OidStr(oid) == <<"0", "x">> \o Hex(oid)
\* format!("ASIC_STATE:SAI_OBJECT_TYPE_VLAN:0x{:x}", vlan_oid)
AsicKey(oid) == ASIC_VLAN_PREFIX \o OidStr(oid)

\* ------------------------------------------------------------- value types
\* faulty variant: every u16 is accepted
VlanIdNew_Unchecked(id) == <<id>>
\* VlanId::new: Some(id) exactly for 1..=4094
VlanIdNew(id) == IF id >= MIN_VLAN_ID /\ id <= MAX_VLAN_ID THEN <<id>> ELSE <<>>

\* serde_json::to_string of VlanConfig / VlanEntry: description is omitted when None
ToJson(e) ==
    IF e.description = <<>>
    THEN [vlanid |-> e.vlanid]
    ELSE [vlanid |-> e.vlanid, description |-> e.description[1]]

\* serde_json::from_str into VlanConfig / VlanEntry: a missing description is None
FromJson(j) ==
    [vlanid |-> j.vlanid,
     description |-> IF "description" \in DOMAIN j THEN <<j.description>> ELSE <<>>]

\* faulty variant: the record does not carry the entry's vlanid
AsicJson_ZeroVlanId(vlanid, oid) == [vlanid |-> 0, oid |-> OidStr(oid)]
\* json!({"vlanid": .., "oid": "0x.."}) written to Asic
AsicJson(vlanid, oid) == [vlanid |-> vlanid, oid |-> OidStr(oid)]

\* Result<T>: Ok(value) or Err(kind), kind a RacoonError variant
Ok(v) == [ok |-> TRUE, val |-> <<v>>, err |-> "-"]
Err(e) == [ok |-> FALSE, val |-> <<>>, err |-> e]

\* faulty variant: ITEM_ALREADY_EXISTS counts as success
SaiToResult_ExistsIsOk(status) ==
    IF status \in {"SUCCESS", "ITEM_ALREADY_EXISTS"} THEN Ok("unit") ELSE Err("Sai")
\* SaiStatus::to_result: only SUCCESS is Ok, every other status is RacoonError::Sai
SaiToResult(status) == IF status = "SUCCESS" THEN Ok("unit") ELSE Err("Sai")

\* ------------------------------------------------------------------- state
CONFIG_CH == "CONFIG_DB:VLAN"
VLAN_CH == "VLAN_TABLE"

VARIABLES
    db,         \* the state store: db[d][key] is the JSON stored at key of logical DB d
    chan,       \* pub/sub: chan[c] is the messages published on c and not yet received
    arrived,    \* arrived[c]: how many messages channel c has carried to its subscriber
    orchVlans,  \* VlanOrch.vlans (DashMap<VlanId, VlanEntry>)
    orchTask,   \* position of orchd's subscribe loop and of the handler it awaits
    orchRes,    \* what the last finished orchd handler returned
    syncVlans,  \* VlanSync.vlans (DashMap<VlanId, VlanState>)
    syncTask,   \* position of syncd's subscribe loop and of the handler it awaits
    syncRes,    \* what the last finished syncd handler returned
    hw,         \* the vendor library's VLAN objects: hw[oid] is the VLAN id
    issued,     \* how many OIDs the vendor library has issued
    loops,      \* per subscriber: handler invocations in progress and completed
    ops,        \* operations the configurator has performed
    faults,     \* failed calls so far, by caller: orch store, sync store, vendor;
                \* and how many times a daemon has crashed
    removals,   \* per VLAN name: how often its Appl entry / its Asic record was deleted
    once,       \* Appl and Asic as they stood when a processed SET was announced again
    connections, \* DbClient.connections (HashMap<Database, ConnectionManager>)
    sessions,   \* the connections opened at the server: sessions[c] is the index selected
    callers,    \* the tasks that call DbClient directly, each with its position
    calc        \* a call of a function of racoon-common's types: its input and result

\* what the daemons' pipeline never touches
libvars == <<connections, sessions, callers, calc>>
vars == <<db, chan, arrived, orchVlans, orchTask, orchRes, syncVlans, syncTask, syncRes,
          hw, issued, loops, ops, faults, removals, once, libvars>>

Databases == {"Config", "Appl", "Asic"}
EmptyMap == <<>>

\* map helpers (HashMap / DashMap / one logical DB)
Has(m, k) == k \in DOMAIN m
Put(m, k, v) == [x \in DOMAIN m \cup {k} |-> IF x = k THEN v ELSE m[x]]
Drop(m, k) == [x \in DOMAIN m \ {k} |-> m[x]]

\* faulty variant: a key that exists keeps its value
DbSet_KeepsFirst(store, d, key, json) ==
    IF Has(store[d], key) THEN store ELSE [store EXCEPT ![d] = Put(@, key, json)]
\* DbClient::set: store the JSON at the key of the logical DB, overwriting
DbSet(store, d, key, json) == [store EXCEPT ![d] = Put(@, key, json)]
\* faulty variant: deleting an absent key empties the logical DB
DbDel_AbsentClears(store, d, key) ==
    [store EXCEPT ![d] = IF Has(@, key) THEN Drop(@, key) ELSE EmptyMap]
\* DbClient::del: remove the key; no error when it is absent
DbDel(store, d, key) == [store EXCEPT ![d] = Drop(@, key)]
\* DbClient::get: the driver fails to convert the nil reply of a missing key, and
\* every driver error is RacoonError::Database
DbGet(store, d, key, up) ==
    IF ~up THEN Err("Database")
    ELSE IF ~Has(store[d], key) THEN Err("Database")
    ELSE Ok(FromJson(store[d][key]))

\* DbClient::publish: the message joins the subscriber's stream, numbered by arrival
Publish(c, payload) ==
    /\ chan' = [chan EXCEPT ![c] = Append(@, [n |-> arrived[c] + 1, payload |-> payload])]
    /\ arrived' = [arrived EXCEPT ![c] = @ + 1]

\* ------------------------------------------------------------ fault budget
FaultsUsed == faults.orch + faults.sync + faults.vendor
\* a store call is served (up) or the driver returns an error; a vendor call returns
\* SUCCESS or another status; at most MaxFaults calls fail in one run
Charge(who, up) ==
    /\ up \/ FaultsUsed < MaxFaults
    /\ faults' = IF up THEN faults ELSE [faults EXCEPT ![who] = @ + 1]

\* ----------------------------------------------------------------- initial
\* the vendor call of a handler: entry point, returned status, and whether the map
\* held the VLAN when the call was made
NoCall == [fn |-> "-", status |-> "-", tracked |-> FALSE]
\* a daemon's position: pc "recv" is the subscribe loop waiting for a message; boot
\* is TRUE until the daemon has subscribed, todo the keys start() has still to load.
\* Two observations are kept from the call of start() until the daemon subscribes:
\* since, the number of configurator operations performed by then, and orphans, the
\* Asic keys whose VLAN had no Appl entry then. listed is kept while start() runs: the
\* Config records under the keys that sync_vlans enumerated, as they were then. before
\* is kept while a handler of orchd runs: Appl, orchd's map and the number of
\* notifications published on VLAN_TABLE, as they were when it was called. exit is
\* the status the process ended with, <<>> while it runs
IdleTask == [pc |-> "recv", n |-> 0, name |-> <<>>, vid |-> 0, entry |-> <<>>, oid |-> 0,
             call |-> NoCall, boot |-> FALSE, todo |-> {}, since |-> 0, orphans |-> {},
             listed |-> EmptyMap, before |-> <<>>, exit |-> <<>>]
\* orchd's process exists but main has not yet called VlanOrch::start
DownTask == [IdleTask EXCEPT !.pc = "down", !.boot = TRUE]
NoRes == [n |-> 0, op |-> "-", name |-> <<>>, res |-> "-"]
NoSyncRes == [n |-> 0, op |-> "-", name |-> <<>>, res |-> "-", call |-> NoCall]

\* no task calls DbClient directly, no function of the types is being evaluated
NoCalc == [fn |-> "-", arg |-> <<>>, out |-> <<>>]
LibUnused ==
    /\ connections = EmptyMap
    /\ sessions = <<>>
    /\ callers = <<>>
    /\ calc = NoCalc

\* both daemons subscribed and idle, the stores and the vendor empty
PipelineInit ==
    /\ db = [d \in Databases |-> EmptyMap]
    /\ chan = [c \in {CONFIG_CH, VLAN_CH} |-> <<>>]
    /\ arrived = [c \in {CONFIG_CH, VLAN_CH} |-> 0]
    /\ orchVlans = EmptyMap
    /\ orchTask = IdleTask
    /\ orchRes = NoRes
    /\ syncVlans = EmptyMap
    /\ syncTask = IdleTask
    /\ syncRes = NoSyncRes
    /\ hw = EmptyMap
    /\ issued = 0
    /\ loops = [s \in {"orch", "sync"} |-> [running |-> 0, handled |-> 0]]
    /\ ops = 0
    /\ faults = [orch |-> 0, sync |-> 0, vendor |-> 0, crash |-> 0]
    /\ removals = [appl |-> EmptyMap, asic |-> EmptyMap]
    /\ once = <<>>

Init == PipelineInit /\ LibUnused

\* orchd not yet started: Config is being written with nobody subscribed
BootInit ==
    /\ db = [d \in Databases |-> EmptyMap]
    /\ chan = [c \in {CONFIG_CH, VLAN_CH} |-> <<>>]
    /\ arrived = [c \in {CONFIG_CH, VLAN_CH} |-> 0]
    /\ orchVlans = EmptyMap
    /\ orchTask = DownTask
    /\ orchRes = NoRes
    /\ syncVlans = EmptyMap
    /\ syncTask = IdleTask
    /\ syncRes = NoSyncRes
    /\ hw = EmptyMap
    /\ issued = 0
    /\ loops = [s \in {"orch", "sync"} |-> [running |-> 0, handled |-> 0]]
    /\ ops = 0
    /\ faults = [orch |-> 0, sync |-> 0, vendor |-> 0, crash |-> 0]
    /\ removals = [appl |-> EmptyMap, asic |-> EmptyMap]
    /\ once = <<>>
    /\ LibUnused

\* no notification undelivered, no handler running
Idle ==
    /\ chan[CONFIG_CH] = <<>> /\ chan[VLAN_CH] = <<>>
    /\ orchTask.pc = "recv" /\ syncTask.pc = "recv"

\* ------------------------------------------------- the external configurator
\* VLAN ids the configurator uses: both ends of the valid range and just outside it
InputIds == {0, MIN_VLAN_ID, MAX_VLAN_ID, MAX_VLAN_ID + 1}
Descriptions == {<<>>, <<"test">>}

\* what a handler of orchd finds when it is called
AtCall == <<[appl |-> db["Appl"], vlans |-> orchVlans, published |-> arrived[VLAN_CH]]>>

\* PUBLISH on CONFIG_DB:VLAN reaches orchd only once orchd has subscribed
Announce(payload) ==
    IF orchTask.boot THEN UNCHANGED <<chan, arrived>> ELSE Publish(CONFIG_CH, payload)

SetMsg(name) == [operation |-> "SET", key |-> ConfigKey(name)]
DelMsg(name) == [operation |-> "DEL", key |-> ConfigKey(name)]

\* writes VLAN|Vlan<id> = {vlanid, description?} and announces SET on CONFIG_DB:VLAN
ConfigSet(id, desc) ==
    /\ ops < MaxOps
    /\ ops' = ops + 1
    /\ db' = DbSet(db, "Config", ConfigKey(VlanName(id)),
                   ToJson([vlanid |-> id, description |-> desc]))
    /\ Announce(SetMsg(VlanName(id)))
    /\ once' = <<>>
    /\ UNCHANGED <<libvars, orchVlans, orchTask, orchRes, syncVlans, syncTask, syncRes,
                   hw, issued, loops, faults, removals>>

\* deletes VLAN|Vlan<id> and announces DEL
ConfigDel(id) ==
    /\ ops < MaxOps
    /\ Has(db["Config"], ConfigKey(VlanName(id)))
    /\ ops' = ops + 1
    /\ db' = DbDel(db, "Config", ConfigKey(VlanName(id)))
    /\ Announce(DelMsg(VlanName(id)))
    /\ once' = <<>>
    /\ UNCHANGED <<libvars, orchVlans, orchTask, orchRes, syncVlans, syncTask, syncRes,
                   hw, issued, loops, faults, removals>>

\* a redriver announces a key again as it stands: SET when present, DEL when absent
Republish(id) ==
    /\ ops < MaxOps
    /\ ops' = ops + 1
    /\ Announce(IF Has(db["Config"], ConfigKey(VlanName(id)))
                THEN SetMsg(VlanName(id)) ELSE DelMsg(VlanName(id)))
    /\ once' = IF Idle /\ Has(db["Config"], ConfigKey(VlanName(id)))
               THEN <<[name |-> VlanName(id), appl |-> db["Appl"], asic |-> db["Asic"]]>>
               ELSE <<>>
    /\ UNCHANGED <<libvars, db, orchVlans, orchTask, orchRes, syncVlans, syncTask, syncRes,
                   hw, issued, loops, faults, removals>>

\* ------------------------------------------------------ the subscribe loop
\* faulty variant: the loop polls the stream without awaiting the handler
LoopAwaits_Spawned(task) == TRUE
\* DbSubscriberClient::subscribe awaits on_message before it polls the stream again
LoopAwaits(task) == task.pc = "recv"
\* faulty variant: the loop ends when a handler has failed
LoopContinues_OnlyOnOk(res) == res \in {"-", "Ok", "Ignored"}
\* subscriber.on_message(..).await returns (): whatever the handler's outcome, the loop
\* goes on to poll the stream
LoopContinues(res) == TRUE
\* the loop of subscribe stands at pubsub.on_message().next(), about to take a message
Polls(task, res) == LoopAwaits(task) /\ LoopContinues(res.res)
\* pubsub.on_message().next(): the stream yields the oldest message not yet received
StreamNext(q) == 1
Without(q, i) == SubSeq(q, 1, i - 1) \o SubSeq(q, i + 1, Len(q))

\* .next().await.ok_or_else(|| RacoonError::Database("Subscription closed")): what
\* subscribe returns when the stream of the pub/sub connection ends
SubscriptionClosed == Err("Database")
\* main: `return Err(e.into())` ends the process with the failure status
EXIT_FAILURE == 1
\* the process after main returned the error of subscribe: no loop, no subscription
ExitedTask == [IdleTask EXCEPT !.pc = "exited", !.boot = TRUE, !.exit = <<EXIT_FAILURE>>]

\* a message carries text, or [bytes |-> b] for bytes that are not UTF-8.
\* msg.get_payload::<String>(): Err on bytes that are not UTF-8, mapped to
\* RacoonError::Database and returned from subscribe by `?`
GetPayload(payload) == IF "bytes" \in DOMAIN payload THEN Err("Database") ELSE Ok(payload)

\* a payload is the record of a JSON object, or [raw |-> text] for text that is not JSON.
\* serde_json::from_str::<Value>(message): Err on text that is not JSON
FromStr(payload) == IF "raw" \in DOMAIN payload THEN Err("Serialization") ELSE Ok(payload)

\* faulty variant: a notification without operation is taken as a SET
Operation_DefaultSet(m) == IF "operation" \in DOMAIN m THEN m.operation ELSE "SET"
\* notification["operation"].as_str().unwrap_or(""), notification["key"].as_str().unwrap_or("")
Operation(m) == IF "operation" \in DOMAIN m THEN m.operation ELSE ""
KeyOf(m) == IF "key" \in DOMAIN m THEN m.key ELSE <<>>

\* faulty variant: the name is parsed without stripping "Vlan"
VlanIdOfName_NoStrip(name) ==
    LET num == ParseU16(name)
    IN  IF num = <<>> THEN Err("InvalidVlanId")
        ELSE IF VlanIdNew(num[1]) = <<>> THEN Err("InvalidVlanId")
        ELSE Ok(num[1])
\* delete_vlan, "Vlan100 -> 100": strip "Vlan" if present, parse u16, VlanId::new
VlanIdOfName(name) ==
    LET s == StripPrefix(name, VLAN_PREFIX)
        str == IF s = <<>> THEN name ELSE s[1]
        num == ParseU16(str)
    IN  IF num = <<>> THEN Err("InvalidVlanId")
        ELSE IF VlanIdNew(num[1]) = <<>> THEN Err("InvalidVlanId")
        ELSE Ok(num[1])

Started(n, name) == [n |-> n, name |-> name]
Began(task, s, pc, vid) == [task EXCEPT !.pc = pc, !.n = s.n, !.name = s.name, !.vid = vid]
Finished(s, op, res) == [n |-> s.n, op |-> op, name |-> s.name, res |-> res]
Enter(sub) == loops' = [loops EXCEPT ![sub].running = @ + 1]
Leave(sub) == loops' = [loops EXCEPT ![sub].running = @ - 1, ![sub].handled = @ + 1]
Pass(sub) == loops' = [loops EXCEPT ![sub].handled = @ + 1]

\* ------------------------------------------------------------ orchd (C3)
\* faulty variant: the projection loses the description
VlanEntryOf_NoDescription(config) == [vlanid |-> config.vlanid, description |-> <<>>]
\* faulty variant: the entry of a VLAN that orchd already tracks loses the description
VlanEntryOf_UpdateDropsDescription(config) ==
    [vlanid |-> config.vlanid,
     description |-> IF Has(orchVlans, config.vlanid) THEN <<>> ELSE config.description]
\* VlanEntry { vlanid: config.vlanid, description: config.description.clone() }
VlanEntryOf(config) == [vlanid |-> config.vlanid, description |-> config.description]

\* PUBLISH on VLAN_TABLE reaches syncd only once syncd has subscribed
Notify(payload) ==
    IF syncTask.boot THEN UNCHANGED <<chan, arrived>> ELSE Publish(VLAN_CH, payload)

SetNotification(name, entry) ==
    [operation |-> "SET", table |-> VLAN_CH, key |-> name, data |-> ToJson(entry)]
DelNotification(name) == [operation |-> "DEL", table |-> VLAN_CH, key |-> name]

\* faulty variant: the DEL notification goes out before the Appl entry is removed
DeleteSteps_PublishFirst == <<"publish_del", "del_appl">>
\* delete_vlan's awaited calls in program order: db_client.del, then db_client.publish
DeleteSteps == <<"del_appl", "publish_del">>
\* where delete_vlan stands after the call at pc returned Ok ("recv": it has returned)
AfterDelete(pc) == IF pc = DeleteSteps[1] THEN DeleteSteps[2] ELSE "recv"

\* one more deletion of the VLAN's entry on the given side (appl / asic)
Removed(side, name) ==
    [removals EXCEPT ![side] = Put(@, name, IF Has(@, name) THEN @[name] + 1 ELSE 1)]
Removals(side, name) == IF Has(removals[side], name) THEN removals[side][name] ELSE 0

\* the handler returns: the subscribe loop polls again; during start(), sync_vlans
\* logs the result and goes on to its next key
OrchReturn(op, res) ==
    /\ orchRes' = Finished(orchTask, op, res)
    /\ IF orchTask.boot
       THEN /\ orchTask' = [IdleTask EXCEPT !.pc = "sync_next", !.boot = TRUE,
                                            !.todo = orchTask.todo,
                                            !.since = orchTask.since,
                                            !.listed = orchTask.listed]
            /\ UNCHANGED loops
       ELSE /\ orchTask' = IdleTask
            /\ Leave("orch")

\* main: vlan_orch.start() is called
OrchStart ==
    /\ orchTask.pc = "down"
    /\ orchTask' = [orchTask EXCEPT !.pc = "sync_keys", !.since = ops]
    /\ UNCHANGED <<libvars, db, chan, arrived, orchVlans, orchRes, syncVlans, syncTask, syncRes,
                   hw, issued, loops, ops, faults, removals, once>>

\* sync_vlans: keys(Config, "VLAN|Vlan*"), keeping what follows "VLAN|"
OrchSyncKeys ==
    /\ orchTask.pc = "sync_keys"
    /\ orchTask' = [orchTask EXCEPT
                       !.pc = "sync_next",
                       !.todo = {StripPrefix(k, CONFIG_VLAN_PREFIX)[1] :
                                   k \in {x \in DOMAIN db["Config"] :
                                             StripPrefix(x, CONFIG_VLAN_PREFIX) # <<>>}},
                       !.listed = db["Config"]]
    /\ UNCHANGED <<libvars, db, chan, arrived, orchVlans, orchRes, syncVlans, syncTask, syncRes,
                   hw, issued, loops, ops, faults, removals, once>>

\* sync_vlans: the loop takes its next key (KEYS returns them in no particular order)
\* and calls process_vlan_config; after the last key start() returns
OrchSyncNext ==
    /\ orchTask.pc = "sync_next"
    /\ IF orchTask.todo = {}
       THEN orchTask' = [orchTask EXCEPT !.pc = "subscribe"]
       ELSE \E name \in orchTask.todo :
                orchTask' = [orchTask EXCEPT !.pc = "get_config", !.name = name,
                                             !.todo = @ \ {name}, !.before = AtCall]
    /\ UNCHANGED <<libvars, db, chan, arrived, orchVlans, orchRes, syncVlans, syncTask, syncRes,
                   hw, issued, loops, ops, faults, removals, once>>

\* main: subscriber_client.subscribe(["CONFIG_DB:VLAN"], ..) after start() returned
OrchSubscribe ==
    /\ orchTask.pc = "subscribe"
    /\ orchTask' = IdleTask
    /\ UNCHANGED <<libvars, db, chan, arrived, orchVlans, orchRes, syncVlans, syncTask, syncRes,
                   hw, issued, loops, ops, faults, removals, once>>

\* subscribe hands the next message to VlanOrch::handle_notification, which runs up
\* to its first store call
OrchRecv ==
    /\ Polls(orchTask, orchRes)
    /\ chan[CONFIG_CH] # <<>>
    /\ LET i == StreamNext(chan[CONFIG_CH])
           m == chan[CONFIG_CH][i]
           parsed == FromStr(m.payload)
           operation == Operation(parsed.val[1])
           name == StripPrefix(KeyOf(parsed.val[1]), CONFIG_VLAN_PREFIX)
           s == Started(m.n, IF name = <<>> THEN <<>> ELSE name[1])
       IN  /\ chan' = IF GetPayload(m.payload).ok
                      THEN [chan EXCEPT ![CONFIG_CH] = Without(@, i)]
                      ELSE [chan EXCEPT ![CONFIG_CH] = <<>>]
           /\ IF ~GetPayload(m.payload).ok
              THEN /\ orchRes' = Finished(Started(m.n, <<>>), "subscribe",
                                          GetPayload(m.payload).err)
                   /\ orchTask' = ExitedTask
                   /\ UNCHANGED loops
              ELSE IF ~parsed.ok
              THEN /\ orchRes' = Finished(Started(m.n, <<>>), "-", parsed.err)
                   /\ Pass("orch")
                   /\ UNCHANGED orchTask
              ELSE IF operation \in {"SET", "CREATE"} /\ name # <<>>
              THEN /\ orchTask' = [Began(orchTask, s, "get_config", 0) EXCEPT !.before = AtCall]
                   /\ Enter("orch")
                   /\ UNCHANGED orchRes
              ELSE IF operation \in {"DEL", "DELETE"} /\ name # <<>>
              THEN LET id == VlanIdOfName(name[1])
                   IN  IF id.ok
                       THEN /\ orchTask' = [Began(orchTask, s, DeleteSteps[1], id.val[1])
                                              EXCEPT !.before = AtCall]
                            /\ Enter("orch")
                            /\ UNCHANGED orchRes
                       ELSE /\ orchRes' = Finished(s, "DEL", id.err)
                            /\ Pass("orch")
                            /\ UNCHANGED orchTask
              ELSE /\ orchRes' = Finished(s, operation, "Ignored")
                   /\ Pass("orch")
                   /\ UNCHANGED orchTask
    /\ UNCHANGED <<libvars, db, arrived, orchVlans, syncVlans, syncTask, syncRes, hw, issued, ops, faults, removals, once>>

\* process_vlan_config: get VLAN|<name> from Config, validate vlanid, build the entry
OrchGetConfig(up) ==
    /\ orchTask.pc = "get_config"
    /\ Charge("orch", up)
    /\ LET r == DbGet(db, "Config", ConfigKey(orchTask.name), up)
       IN  IF ~r.ok THEN OrchReturn("SET", r.err)
           ELSE IF VlanIdNew(r.val[1].vlanid) = <<>> THEN OrchReturn("SET", "InvalidVlanId")
           ELSE /\ orchTask' = [orchTask EXCEPT !.pc = "set_appl",
                                                !.vid = r.val[1].vlanid,
                                                !.entry = <<VlanEntryOf(r.val[1])>>]
                /\ UNCHANGED <<orchRes, loops>>
    /\ UNCHANGED <<libvars, db, chan, arrived, orchVlans, syncVlans, syncTask, syncRes, hw, issued, ops, removals, once>>

\* process_vlan_config: set VLAN_TABLE:<name> in Appl, then track the VLAN
OrchSetAppl(up) ==
    /\ orchTask.pc = "set_appl"
    /\ Charge("orch", up)
    /\ IF up
       THEN /\ db' = DbSet(db, "Appl", ApplKey(orchTask.name), ToJson(orchTask.entry[1]))
            /\ orchVlans' = Put(orchVlans, orchTask.vid, orchTask.entry[1])
            /\ orchTask' = [orchTask EXCEPT !.pc = "publish_set"]
            /\ UNCHANGED <<orchRes, loops>>
       ELSE /\ OrchReturn("SET", "Database")
            /\ UNCHANGED <<db, orchVlans>>
    /\ UNCHANGED <<libvars, chan, arrived, syncVlans, syncTask, syncRes, hw, issued, ops, removals, once>>

\* process_vlan_config: publish the SET notification on VLAN_TABLE
OrchPublishSet(up) ==
    /\ orchTask.pc = "publish_set"
    /\ Charge("orch", up)
    /\ IF up
       THEN /\ Notify(SetNotification(orchTask.name, orchTask.entry[1]))
            /\ OrchReturn("SET", "Ok")
       ELSE /\ OrchReturn("SET", "Database")
            /\ UNCHANGED <<chan, arrived>>
    /\ UNCHANGED <<libvars, db, orchVlans, syncVlans, syncTask, syncRes, hw, issued, ops, removals, once>>

\* delete_vlan: del VLAN_TABLE:<name> from Appl, then stop tracking the VLAN
OrchDelAppl(up) ==
    /\ orchTask.pc = "del_appl"
    /\ Charge("orch", up)
    /\ IF up
       THEN /\ db' = DbDel(db, "Appl", ApplKey(orchTask.name))
            /\ orchVlans' = Drop(orchVlans, orchTask.vid)
            /\ removals' = Removed("appl", orchTask.name)
            /\ IF AfterDelete("del_appl") = "recv"
               THEN OrchReturn("DEL", "Ok")
               ELSE /\ orchTask' = [orchTask EXCEPT !.pc = AfterDelete("del_appl")]
                    /\ UNCHANGED <<orchRes, loops>>
       ELSE /\ OrchReturn("DEL", "Database")
            /\ UNCHANGED <<db, orchVlans, removals>>
    /\ UNCHANGED <<libvars, chan, arrived, syncVlans, syncTask, syncRes, hw, issued, ops, once>>

\* delete_vlan: publish the DEL notification on VLAN_TABLE
OrchPublishDel(up) ==
    /\ orchTask.pc = "publish_del"
    /\ Charge("orch", up)
    /\ IF up
       THEN /\ Notify(DelNotification(orchTask.name))
            /\ IF AfterDelete("publish_del") = "recv"
               THEN OrchReturn("DEL", "Ok")
               ELSE /\ orchTask' = [orchTask EXCEPT !.pc = AfterDelete("publish_del")]
                    /\ UNCHANGED <<orchRes, loops>>
       ELSE /\ OrchReturn("DEL", "Database")
            /\ UNCHANGED <<chan, arrived>>
    /\ UNCHANGED <<libvars, db, orchVlans, syncVlans, syncTask, syncRes, hw, issued, ops, removals, once>>

\* ------------------------------------------------- the vendor library (SAI)
\* the OID the vendor issues for its k-th VLAN object: object type 0x26 above a counter
VendorOid(k) == 637534208 + k
\* statuses with which a vendor entry point may refuse a call
CreateRefusals == {"FAILURE", "ITEM_ALREADY_EXISTS"}
RemoveRefusals == {"FAILURE", "ITEM_NOT_FOUND"}
ChargeVendor(status) == Charge("vendor", status = "SUCCESS")
\* the vendor's VLAN objects that carry the VLAN id
VendorObjectsOf(vid) == {oid \in DOMAIN hw : hw[oid] = vid}
\* what a working vendor answers to create_vlan: a VLAN id it already has is refused
VendorCreateAnswer(vid) ==
    IF VendorObjectsOf(vid) = {} THEN "SUCCESS" ELSE "ITEM_ALREADY_EXISTS"
\* any other answer to create_vlan counts as a failed call
ChargeCreate(status, vid) == Charge("vendor", status = VendorCreateAnswer(vid))

\* faulty variant: the status of the vendor call is not looked at
VlanApiCreate_IgnoresStatus(status, oid) == Ok(oid)
\* VlanApi::create_vlan: SaiStatus::from(status).to_result()?; Ok(vlan_oid)
VlanApiCreate(status, oid) == IF SaiToResult(status).ok THEN Ok(oid) ELSE Err("Sai")
\* faulty variant: the status of the vendor call is not looked at
VlanApiRemove_IgnoresStatus(status) == Ok("unit")
\* VlanApi::remove_vlan: SaiStatus::from(status).to_result()
VlanApiRemove(status) == SaiToResult(status)

\* ------------------------------------------------------------ syncd (C4)
\* faulty variant: the state keeps the unset OID (0) instead of the returned one
VlanStateOf_UnsetOid(vid, oid) == [vlan_id |-> vid, sai_oid |-> 0]
\* VlanState { _vlan_id, sai_oid }
VlanStateOf(vid, oid) == [vlan_id |-> vid, sai_oid |-> oid]
\* faulty variant: the check for an already programmed VLAN is missing
AlreadyCreated_Never(vlans, vid) == FALSE
\* self.vlans.contains_key(&vlan_id): the VLAN is already programmed
AlreadyCreated(vlans, vid) == Has(vlans, vid)

SyncFinished(s, op, res, call) ==
    [n |-> s.n, op |-> op, name |-> s.name, res |-> res, call |-> call]

SyncReturn(op, res, call) ==
    /\ syncRes' = SyncFinished(syncTask, op, res, call)
    /\ IF syncTask.boot
       THEN /\ syncTask' = [IdleTask EXCEPT !.pc = "sync_next", !.boot = TRUE,
                                            !.todo = syncTask.todo,
                                            !.orphans = syncTask.orphans]
            /\ UNCHANGED loops
       ELSE /\ syncTask' = IdleTask
            /\ Leave("sync")

\* main: vlan_sync.start() is called
SyncStart ==
    /\ syncTask.pc = "down"
    /\ syncTask' = [syncTask EXCEPT
                       !.pc = "sync_keys",
                       !.orphans = {k \in DOMAIN db["Asic"] :
                                      \A a \in DOMAIN db["Appl"] :
                                          FromJson(db["Appl"][a]).vlanid # db["Asic"][k].vlanid}]
    /\ UNCHANGED <<libvars, db, chan, arrived, orchVlans, orchTask, orchRes, syncVlans, syncRes,
                   hw, issued, loops, ops, faults, removals, once>>

\* sync_vlans: keys(Appl, "VLAN_TABLE:*"), keeping what follows "VLAN_TABLE:"
SyncSyncKeys ==
    /\ syncTask.pc = "sync_keys"
    /\ syncTask' = [syncTask EXCEPT
                       !.pc = "sync_next",
                       !.todo = {StripPrefix(k, APPL_VLAN_PREFIX)[1] :
                                   k \in {x \in DOMAIN db["Appl"] :
                                             StripPrefix(x, APPL_VLAN_PREFIX) # <<>>}}]
    /\ UNCHANGED <<libvars, db, chan, arrived, orchVlans, orchTask, orchRes, syncVlans, syncRes,
                   hw, issued, loops, ops, faults, removals, once>>

\* sync_vlans: the loop takes its next key (KEYS returns them in no particular order)
\* and calls create_vlan; after the last key start() returns
SyncSyncNext ==
    /\ syncTask.pc = "sync_next"
    /\ IF syncTask.todo = {}
       THEN syncTask' = [syncTask EXCEPT !.pc = "subscribe"]
       ELSE \E name \in syncTask.todo :
                syncTask' = [syncTask EXCEPT !.pc = "get_appl", !.name = name,
                                             !.todo = @ \ {name}]
    /\ UNCHANGED <<libvars, db, chan, arrived, orchVlans, orchTask, orchRes, syncVlans, syncRes,
                   hw, issued, loops, ops, faults, removals, once>>

\* main: subscriber_client.subscribe(["VLAN_TABLE"], ..) after start() returned
SyncSubscribe ==
    /\ syncTask.pc = "subscribe"
    /\ syncTask' = IdleTask
    /\ UNCHANGED <<libvars, db, chan, arrived, orchVlans, orchTask, orchRes, syncVlans, syncRes,
                   hw, issued, loops, ops, faults, removals, once>>

\* a daemon's process dies, wherever it stands, and is started again: its map, its
\* subscription and the messages not yet handled are gone; the three stores and the
\* vendor's objects stay
Crashed(sub, ch) ==
    /\ faults.crash < MaxCrashes
    /\ faults' = [faults EXCEPT !.crash = @ + 1]
    /\ chan' = [chan EXCEPT ![ch] = <<>>]
    /\ arrived' = [arrived EXCEPT ![ch] = 0]
    /\ loops' = [loops EXCEPT ![sub] = [running |-> 0, handled |-> 0]]

OrchCrash ==
    /\ orchTask.pc # "down"
    /\ Crashed("orch", CONFIG_CH)
    /\ orchTask' = DownTask
    /\ orchVlans' = EmptyMap
    /\ orchRes' = NoRes
    /\ UNCHANGED <<libvars, db, syncVlans, syncTask, syncRes, hw, issued, ops, removals, once>>

SyncCrash ==
    /\ syncTask.pc # "down"
    /\ Crashed("sync", VLAN_CH)
    /\ syncTask' = DownTask
    /\ syncVlans' = EmptyMap
    /\ syncRes' = NoSyncRes
    /\ UNCHANGED <<libvars, db, orchVlans, orchTask, orchRes, hw, issued, ops, removals, once>>

\* subscribe hands the next message to VlanSync::handle_notification, which runs up
\* to its first store or vendor call
SyncRecv ==
    /\ Polls(syncTask, syncRes)
    /\ chan[VLAN_CH] # <<>>
    /\ LET i == StreamNext(chan[VLAN_CH])
           m == chan[VLAN_CH][i]
           parsed == FromStr(m.payload)
           operation == Operation(parsed.val[1])
           s == Started(m.n, KeyOf(parsed.val[1]))
       IN  /\ chan' = IF GetPayload(m.payload).ok
                      THEN [chan EXCEPT ![VLAN_CH] = Without(@, i)]
                      ELSE [chan EXCEPT ![VLAN_CH] = <<>>]
           /\ IF ~GetPayload(m.payload).ok
              THEN /\ syncRes' = SyncFinished(Started(m.n, <<>>), "subscribe",
                                              GetPayload(m.payload).err, NoCall)
                   /\ syncTask' = ExitedTask
                   /\ UNCHANGED loops
              ELSE IF ~parsed.ok
              THEN /\ syncRes' = SyncFinished(Started(m.n, <<>>), "-", parsed.err, NoCall)
                   /\ Pass("sync")
                   /\ UNCHANGED syncTask
              ELSE IF operation \in {"SET", "CREATE"}
              THEN /\ syncTask' = Began(syncTask, s, "get_appl", 0)
                   /\ Enter("sync")
                   /\ UNCHANGED syncRes
              ELSE IF operation \in {"DEL", "DELETE"}
              THEN LET id == VlanIdOfName(s.name)
                   IN  IF ~id.ok
                       THEN /\ syncRes' = SyncFinished(s, "DEL", id.err, NoCall)
                            /\ Pass("sync")
                            /\ UNCHANGED syncTask
                       ELSE IF ~Has(syncVlans, id.val[1])
                       THEN /\ syncRes' = SyncFinished(s, "DEL", "Ok", NoCall)
                            /\ Pass("sync")
                            /\ UNCHANGED syncTask
                       ELSE /\ syncTask' = [Began(syncTask, s, "remove_hw", id.val[1])
                                              EXCEPT !.oid = syncVlans[id.val[1]].sai_oid]
                            /\ Enter("sync")
                            /\ UNCHANGED syncRes
              ELSE /\ syncRes' = SyncFinished(s, operation, "Ignored", NoCall)
                   /\ Pass("sync")
                   /\ UNCHANGED syncTask
    /\ UNCHANGED <<libvars, db, arrived, orchVlans, orchTask, orchRes, syncVlans, hw, issued, ops, faults, removals, once>>

\* create_vlan: get VLAN_TABLE:<name> from Appl, validate vlanid, skip a VLAN already
\* programmed
SyncGetAppl(up) ==
    /\ syncTask.pc = "get_appl"
    /\ Charge("sync", up)
    /\ LET r == DbGet(db, "Appl", ApplKey(syncTask.name), up)
       IN  IF ~r.ok THEN SyncReturn("SET", r.err, NoCall)
           ELSE IF VlanIdNew(r.val[1].vlanid) = <<>>
           THEN SyncReturn("SET", "InvalidVlanId", NoCall)
           ELSE IF AlreadyCreated(syncVlans, r.val[1].vlanid)
           THEN SyncReturn("SET", "Ok", NoCall)
           ELSE /\ syncTask' = [syncTask EXCEPT !.pc = "create_hw",
                                                !.vid = r.val[1].vlanid,
                                                !.entry = <<r.val[1]>>]
                /\ UNCHANGED <<syncRes, loops>>
    /\ UNCHANGED <<libvars, db, chan, arrived, orchVlans, orchTask, orchRes, syncVlans, hw, issued, ops, removals, once>>

\* create_vlan: vendor create_vlan(switch_id, vlan_id); on success track the OID
SyncCreateHw(status) ==
    /\ syncTask.pc = "create_hw"
    /\ ChargeCreate(status, syncTask.vid)
    /\ LET oid == VendorOid(issued + 1)
           r == VlanApiCreate(status, oid)
           call == [fn |-> "create_vlan", status |-> status,
                    tracked |-> Has(syncVlans, syncTask.vid)]
       IN  IF r.ok
           THEN /\ hw' = Put(hw, oid, syncTask.vid)
                /\ issued' = issued + 1
                /\ syncVlans' = Put(syncVlans, syncTask.vid, VlanStateOf(syncTask.vid, r.val[1]))
                /\ syncTask' = [syncTask EXCEPT !.pc = "set_asic", !.oid = r.val[1],
                                                !.call = call]
                /\ UNCHANGED <<syncRes, loops>>
           ELSE /\ SyncReturn("SET", r.err, call)
                /\ UNCHANGED <<hw, issued, syncVlans>>
    /\ UNCHANGED <<libvars, db, chan, arrived, orchVlans, orchTask, orchRes, ops, removals, once>>

\* create_vlan: set ASIC_STATE:SAI_OBJECT_TYPE_VLAN:0x<oid> in Asic
SyncSetAsic(up) ==
    /\ syncTask.pc = "set_asic"
    /\ Charge("sync", up)
    /\ IF up
       THEN /\ db' = DbSet(db, "Asic", AsicKey(syncTask.oid),
                           AsicJson(syncTask.entry[1].vlanid, syncTask.oid))
            /\ SyncReturn("SET", "Ok", syncTask.call)
       ELSE /\ SyncReturn("SET", "Database", syncTask.call)
            /\ UNCHANGED db
    /\ UNCHANGED <<libvars, chan, arrived, orchVlans, orchTask, orchRes, syncVlans, hw, issued, ops, removals, once>>

\* delete_vlan: vendor remove_vlan(oid); on success stop tracking the VLAN
SyncRemoveHw(status) ==
    /\ syncTask.pc = "remove_hw"
    /\ ChargeVendor(status)
    /\ LET r == VlanApiRemove(status)
           call == [fn |-> "remove_vlan", status |-> status, tracked |-> TRUE]
       IN  IF r.ok
           THEN /\ hw' = Drop(hw, syncTask.oid)
                /\ syncVlans' = Drop(syncVlans, syncTask.vid)
                /\ syncTask' = [syncTask EXCEPT !.pc = "del_asic", !.call = call]
                /\ UNCHANGED <<syncRes, loops>>
           ELSE /\ SyncReturn("DEL", r.err, call)
                /\ UNCHANGED <<hw, syncVlans>>
    /\ UNCHANGED <<libvars, db, chan, arrived, orchVlans, orchTask, orchRes, issued, ops, removals, once>>

\* delete_vlan: del ASIC_STATE:SAI_OBJECT_TYPE_VLAN:0x<oid> from Asic
SyncDelAsic(up) ==
    /\ syncTask.pc = "del_asic"
    /\ Charge("sync", up)
    /\ IF up
       THEN /\ db' = DbDel(db, "Asic", AsicKey(syncTask.oid))
            /\ removals' = Removed("asic", syncTask.name)
            /\ SyncReturn("DEL", "Ok", syncTask.call)
       ELSE /\ SyncReturn("DEL", "Database", syncTask.call)
            /\ UNCHANGED <<db, removals>>
    /\ UNCHANGED <<libvars, chan, arrived, orchVlans, orchTask, orchRes, syncVlans, hw, issued, ops, once>>

\* ------------------------------------------------------------ specification
Configurator ==
    \/ \E id \in InputIds, desc \in Descriptions : ConfigSet(id, desc)
    \/ \E id \in InputIds : ConfigDel(id)
    \/ \E id \in InputIds : Republish(id)

Orchd ==
    \/ OrchRecv
    \/ OrchGetConfig(TRUE)
    \/ OrchSetAppl(TRUE)
    \/ OrchPublishSet(TRUE)
    \/ OrchDelAppl(TRUE)
    \/ OrchPublishDel(TRUE)

Syncd ==
    \/ SyncRecv
    \/ SyncGetAppl(TRUE)
    \/ SyncCreateHw(VendorCreateAnswer(syncTask.vid))
    \/ SyncSetAsic(TRUE)
    \/ SyncRemoveHw("SUCCESS")
    \/ SyncDelAsic(TRUE)

\* a store call returns an error
StoreFault ==
    \/ OrchGetConfig(FALSE)
    \/ OrchSetAppl(FALSE)
    \/ OrchPublishSet(FALSE)
    \/ OrchDelAppl(FALSE)
    \/ OrchPublishDel(FALSE)
    \/ SyncGetAppl(FALSE)
    \/ SyncSetAsic(FALSE)
    \/ SyncDelAsic(FALSE)

\* a vendor call returns a status other than SUCCESS
VendorFault ==
    \/ \E status \in CreateRefusals \ {VendorCreateAnswer(syncTask.vid)} :
           SyncCreateHw(status)
    \/ \E status \in RemoveRefusals : SyncRemoveHw(status)

\* the pipeline with every store and vendor call succeeding
Next == Configurator \/ Orchd \/ Syncd
Spec == Init /\ [][Next]_vars

\* the pub/sub connection of orchd closes while subscribe polls it: the messages not
\* yet received are gone, subscribe returns its error to main, main returns it
OrchClosed ==
    /\ Polls(orchTask, orchRes)
    /\ chan' = [chan EXCEPT ![CONFIG_CH] = <<>>]
    /\ orchRes' = Finished(Started(0, <<>>), "subscribe", SubscriptionClosed.err)
    /\ orchTask' = ExitedTask
    /\ UNCHANGED <<libvars, db, arrived, orchVlans, syncVlans, syncTask, syncRes, hw, issued,
                   loops, ops, faults, removals, once>>

SyncClosed ==
    /\ Polls(syncTask, syncRes)
    /\ chan' = [chan EXCEPT ![VLAN_CH] = <<>>]
    /\ syncRes' = SyncFinished(Started(0, <<>>), "subscribe", SubscriptionClosed.err, NoCall)
    /\ syncTask' = ExitedTask
    /\ UNCHANGED <<libvars, db, arrived, orchVlans, orchTask, orchRes, syncVlans, hw, issued,
                   loops, ops, faults, removals, once>>

\* the pipeline with pub/sub connections that may close
Closure ==
    \/ OrchClosed
    \/ SyncClosed
CloseNext == Next \/ Closure
CloseSpec == Init /\ [][CloseNext]_vars

\* the future of subscribe is dropped by whoever awaits it: the loop and the handler
\* it awaits inline (subscriber.on_message(..).await) are one future and end where
\* they stand, at the call the handler was about to make; n keeps the number of the
\* message whose handler was in flight, 0 when the loop was polling the stream
CancelledTask(task) == [IdleTask EXCEPT !.pc = "cancelled", !.boot = TRUE, !.n = task.n]

OrchCancel ==
    /\ ~orchTask.boot
    /\ orchTask' = CancelledTask(orchTask)
    /\ chan' = [chan EXCEPT ![CONFIG_CH] = <<>>]
    /\ UNCHANGED <<libvars, db, arrived, orchVlans, orchRes, syncVlans, syncTask, syncRes,
                   hw, issued, loops, ops, faults, removals, once>>

SyncCancel ==
    /\ ~syncTask.boot
    /\ syncTask' = CancelledTask(syncTask)
    /\ chan' = [chan EXCEPT ![VLAN_CH] = <<>>]
    /\ UNCHANGED <<libvars, db, arrived, orchVlans, orchTask, orchRes, syncVlans, syncRes,
                   hw, issued, loops, ops, faults, removals, once>>

\* the pipeline with subscribe calls that may be cancelled
Cancel ==
    \/ OrchCancel
    \/ SyncCancel
CancelNext == Next \/ Cancel
CancelSpec == Init /\ [][CancelNext]_vars

\* the pipeline with a foreign publisher on both channels: text that is not JSON, a JSON
\* object with an operation the daemons do not know, and one with no operation, each
\* naming the key of a VLAN the configurator writes
NoisePayloads(key) ==
    {[raw |-> <<"{">>], [operation |-> "FLUSH", key |-> key], [key |-> key]}
Inject(c, payload) ==
    /\ ops < MaxOps
    /\ ops' = ops + 1
    /\ IF c = CONFIG_CH THEN Announce(payload) ELSE Notify(payload)
    /\ UNCHANGED <<libvars, db, orchVlans, orchTask, orchRes, syncVlans, syncTask, syncRes,
                   hw, issued, loops, faults, removals, once>>
Noise ==
    \/ \E payload \in NoisePayloads(ConfigKey(VlanName(MIN_VLAN_ID))) :
           Inject(CONFIG_CH, payload)
    \/ \E payload \in NoisePayloads(VlanName(MIN_VLAN_ID)) : Inject(VLAN_CH, payload)
NoiseNext == Next \/ Noise
NoiseSpec == Init /\ [][NoiseNext]_vars

\* the pipeline with a foreign publisher whose messages may also be bytes that are not
\* UTF-8 (a Redis payload is any byte string)
NotUtf8 == [bytes |-> <<255>>]
Bytes ==
    \/ Inject(CONFIG_CH, NotUtf8)
    \/ Inject(VLAN_CH, NotUtf8)
BytesNext == NoiseNext \/ Bytes
BytesSpec == Init /\ [][BytesNext]_vars

\* the pipeline with the configurator working on one VLAN and each daemon's subscribe
\* loop scheduled fairly: a daemon that can take a step eventually takes one
LiveIds == {MIN_VLAN_ID}
LiveConfigurator ==
    \/ \E id \in LiveIds, desc \in Descriptions : ConfigSet(id, desc)
    \/ \E id \in LiveIds : ConfigDel(id)
    \/ \E id \in LiveIds : Republish(id)
LiveNext == LiveConfigurator \/ Orchd \/ Syncd
LiveSpec == Init /\ [][LiveNext]_vars /\ WF_vars(Orchd) /\ WF_vars(Syncd)

\* the pipeline from before orchd starts: the configurator may write Config while
\* orchd is down, loading its keys, or not yet subscribed
OrchBoot ==
    \/ OrchStart
    \/ OrchSyncKeys
    \/ OrchSyncNext
    \/ OrchSubscribe
BootNext == Next \/ OrchBoot
BootSpec == BootInit /\ [][BootNext]_vars

\* the pipeline with up to MaxCrashes crashes of a daemon, each followed by its restart
SyncBoot ==
    \/ SyncStart
    \/ SyncSyncKeys
    \/ SyncSyncNext
    \/ SyncSubscribe
Crash ==
    \/ OrchCrash
    \/ SyncCrash
RestartNext == Next \/ OrchBoot \/ SyncBoot \/ Crash
RestartSpec == Init /\ [][RestartNext]_vars

\* the pipeline with up to MaxFaults failing store or vendor calls
FaultNext == Next \/ StoreFault \/ VendorFault
FaultSpec == Init /\ [][FaultNext]_vars

\* ------------------------------------------------------------ DbClient (C1)
\* everything of the pipeline but the store
daemons == <<chan, arrived, orchVlans, orchTask, orchRes, syncVlans, syncTask, syncRes,
             hw, issued, loops, ops, faults, removals, once>>

\* enum Database { Config = 4, Appl = 0, Asic = 1, State = 6, Counters = 2 }
DatabaseNames == {"Config", "Appl", "Asic", "State", "Counters"}
DatabaseIndex(d) ==
    CASE d = "Config" -> 4 [] d = "Appl" -> 0 [] d = "Asic" -> 1
      [] d = "State" -> 6 [] d = "Counters" -> 2
\* the logical DB that the server keeps at an index
DatabaseAt(index) == CHOOSE d \in DatabaseNames : DatabaseIndex(d) = index

\* ConnectionManager::new(client): a new connection, on the index the URL names
\* (none is named: index 0); db is the logical DB it is being created for
Opened(d) == [selected |-> DatabaseIndex("Appl"), db |-> d]
\* faulty variant: the SELECT is not issued
SelectCmd_Skipped(session, d) == session
\* redis::cmd("SELECT").arg(db as i64) on the new connection
SelectCmd(session, d) == [session EXCEPT !.selected = DatabaseIndex(d)]

\* the calls of tests::test_db_client, followed by a second set, a get and a del of the
\* key that the del has removed: set v, get, set w, get, del, exists, get, del
Script == <<"set", "get", "set", "get", "del", "exists", "get", "del">>
\* the value passed to the set at a step of the script: v first, w later
ValueAt(c, step) == IF step = 1 THEN c.v ELSE c.w

\* keys and values the callers use
ClientKeys == {<<"t", "e", "s", "t", "_", "k", "e", "y">>, <<"k", "2">>}
ClientValues ==
    {[vlanid |-> MIN_VLAN_ID, description |-> <<>>],
     [vlanid |-> MAX_VLAN_ID, description |-> <<"test">>]}

\* a task about to make its first call; conn is the handle get_connection returned,
\* out the results of the calls made so far
CallerOf(d, k, v, w) ==
    [pc |-> "lookup", step |-> 1, d |-> d, k |-> k, v |-> v, w |-> w, conn |-> 0,
     out |-> <<>>]

\* two tasks share one DbClient; they work on different keys or on different DBs
ClientInit ==
    /\ PipelineInit
    /\ connections = EmptyMap
    /\ sessions = <<>>
    /\ calc = NoCalc
    /\ \E d1 \in Databases, d2 \in Databases, k1 \in ClientKeys, k2 \in ClientKeys,
          v \in ClientValues, w \in ClientValues :
           /\ <<d1, k1>> # <<d2, k2>>
           /\ v # w
           /\ callers = <<CallerOf(d1, k1, v, w), CallerOf(d2, k2, w, v)>>

\* get_connection: under the read lock, return the cached connection if there is one
Lookup(t) ==
    /\ callers[t].pc = "lookup"
    /\ callers' = [callers EXCEPT
                      ![t].pc = IF Has(connections, callers[t].d) THEN "command" ELSE "open",
                      ![t].conn = IF Has(connections, callers[t].d)
                                  THEN connections[callers[t].d] ELSE 0]
    /\ UNCHANGED <<db, daemons, connections, sessions, calc>>

\* get_connection: ConnectionManager::new(self.client.clone()).await
Open(t) ==
    /\ callers[t].pc = "open"
    /\ sessions' = Append(sessions, Opened(callers[t].d))
    /\ callers' = [callers EXCEPT ![t].pc = "select", ![t].conn = Len(sessions) + 1]
    /\ UNCHANGED <<db, daemons, connections, calc>>

\* get_connection: SELECT on the new connection
Select(t) ==
    /\ callers[t].pc = "select"
    /\ sessions' = [sessions EXCEPT
                       ![callers[t].conn] = SelectCmd(@, callers[t].d)]
    /\ callers' = [callers EXCEPT ![t].pc = "insert"]
    /\ UNCHANGED <<db, daemons, connections, calc>>

\* get_connection: under the write lock, connections.insert(db, conn.clone())
Insert(t) ==
    /\ callers[t].pc = "insert"
    /\ connections' = Put(connections, callers[t].d, callers[t].conn)
    /\ callers' = [callers EXCEPT ![t].pc = "command"]
    /\ UNCHANGED <<db, daemons, sessions, calc>>

\* the command of set / get / del / exists, executed by the server in the key-space
\* that the connection has selected
Command(t) ==
    LET c == callers[t]
        d == DatabaseAt(sessions[c.conn].selected)
        call == Script[c.step]
        result == CASE call = "set" -> Ok(<<>>)
                    [] call = "get" -> DbGet(db, d, c.k, TRUE)
                    [] call = "del" -> Ok(<<>>)
                    [] call = "exists" -> Ok(Has(db[d], c.k))
    IN  /\ c.pc = "command"
        /\ db' = CASE call = "set" -> DbSet(db, d, c.k, ToJson(ValueAt(c, c.step)))
                    [] call = "del" -> DbDel(db, d, c.k)
                    [] OTHER -> db
        /\ callers' = [callers EXCEPT
                          ![t].pc = IF c.step = Len(Script) THEN "done" ELSE "lookup",
                          ![t].step = @ + 1,
                          ![t].out = Append(@, result)]
        /\ UNCHANGED <<daemons, connections, sessions, calc>>

ClientNext ==
    \E t \in DOMAIN callers :
        \/ Lookup(t)
        \/ Open(t)
        \/ Select(t)
        \/ Insert(t)
        \/ Command(t)
ClientSpec == ClientInit /\ [][ClientNext]_vars

\* ------------------------------------------- syncd under any producer of Appl
\* syncd reads whatever VLAN_TABLE:<name> holds when a notification arrives, whoever
\* wrote it: a producer writes an entry with any u16 vlanid and publishes SET
ProducerSet(id) ==
    /\ ops < MaxOps
    /\ ops' = ops + 1
    /\ db' = DbSet(db, "Appl", ApplKey(VlanName(id)),
                   ToJson([vlanid |-> id, description |-> <<>>]))
    /\ Notify(SetNotification(VlanName(id), [vlanid |-> id, description |-> <<>>]))
    /\ UNCHANGED <<libvars, orchVlans, orchTask, orchRes, syncVlans, syncTask, syncRes,
                   hw, issued, loops, faults, removals, once>>
\* removes the entry, present or not, and publishes DEL
ProducerDel(id) ==
    /\ ops < MaxOps
    /\ ops' = ops + 1
    /\ db' = DbDel(db, "Appl", ApplKey(VlanName(id)))
    /\ Notify(DelNotification(VlanName(id)))
    /\ UNCHANGED <<libvars, orchVlans, orchTask, orchRes, syncVlans, syncTask, syncRes,
                   hw, issued, loops, faults, removals, once>>
Producer ==
    \/ \E id \in InputIds : ProducerSet(id)
    \/ \E id \in InputIds : ProducerDel(id)
\* a store call of syncd returns an error
SyncStoreFault ==
    \/ SyncGetAppl(FALSE)
    \/ SyncSetAsic(FALSE)
    \/ SyncDelAsic(FALSE)
ProducerNext == Producer \/ Syncd \/ SyncStoreFault \/ VendorFault
ProducerSpec == Init /\ [][ProducerNext]_vars

\* ------------------------------------------------- racoon-common: types.rs
\* VlanId::get
VlanIdGet(id) == id

\* enum PortSpeed, by variant name
PortSpeeds ==
    {"Speed1G", "Speed10G", "Speed25G", "Speed40G", "Speed50G", "Speed100G",
     "Speed200G", "Speed400G"}
\* PortSpeed::as_mbps: the discriminant of the variant
AsMbps(speed) ==
    CASE speed = "Speed1G" -> 1000 [] speed = "Speed10G" -> 10000
      [] speed = "Speed25G" -> 25000 [] speed = "Speed40G" -> 40000
      [] speed = "Speed50G" -> 50000 [] speed = "Speed100G" -> 100000
      [] speed = "Speed200G" -> 200000 [] speed = "Speed400G" -> 400000
\* faulty variant: the arm of 25000 is missing
FromMbps_No25G(mbps) ==
    CASE mbps = 1000 -> <<"Speed1G">> [] mbps = 10000 -> <<"Speed10G">>
      [] mbps = 40000 -> <<"Speed40G">>
      [] mbps = 50000 -> <<"Speed50G">> [] mbps = 100000 -> <<"Speed100G">>
      [] mbps = 200000 -> <<"Speed200G">> [] mbps = 400000 -> <<"Speed400G">>
      [] OTHER -> <<>>
\* PortSpeed::from_mbps: Some(variant) for the eight values, None otherwise
FromMbps(mbps) ==
    CASE mbps = 1000 -> <<"Speed1G">> [] mbps = 10000 -> <<"Speed10G">>
      [] mbps = 25000 -> <<"Speed25G">> [] mbps = 40000 -> <<"Speed40G">>
      [] mbps = 50000 -> <<"Speed50G">> [] mbps = 100000 -> <<"Speed100G">>
      [] mbps = 200000 -> <<"Speed200G">> [] mbps = 400000 -> <<"Speed400G">>
      [] OTHER -> <<>>

UpperHexChars == DigitChars \o <<"A", "B", "C", "D", "E", "F">>
\* faulty variant: only lowercase digits are hexadecimal
HexDigitOf_LowerOnly(c) ==
    IF \E i \in 1..16 : HexChars[i] = c
    THEN <<(CHOOSE i \in 1..16 : HexChars[i] = c) - 1>>
    ELSE <<>>
\* char::to_digit(16): Some(value) for 0-9, a-f, A-F
HexDigitOf(c) ==
    IF \E i \in 1..16 : HexChars[i] = c
    THEN <<(CHOOSE i \in 1..16 : HexChars[i] = c) - 1>>
    ELSE IF \E i \in 1..16 : UpperHexChars[i] = c
    THEN <<(CHOOSE i \in 1..16 : UpperHexChars[i] = c) - 1>>
    ELSE <<>>

RECURSIVE RadixDigits(_, _)
\* accumulates hexadecimal digits left to right; <<>> on another character or when
\* the value no longer fits a u8
RadixDigits(s, acc) ==
    IF s = <<>> THEN <<acc>>
    ELSE IF HexDigitOf(Head(s)) = <<>> THEN <<>>
    ELSE LET v == acc * 16 + HexDigitOf(Head(s))[1]
         IN  IF v >= 2 ^ 8 THEN <<>> ELSE RadixDigits(Tail(s), v)
\* u8::from_str_radix(s, 16): an optional leading '+', at least one digit
U8FromStrRadix16(s) ==
    LET body == IF s # <<>> /\ Head(s) = "+" THEN Tail(s) ELSE s
    IN  IF body = <<>> THEN <<>> ELSE RadixDigits(body, 0)

\* str::replace([':', '-', '.'], "")
MacSeparators == {":", "-", "."}
WithoutSeparators(s) == SelectSeq(s, LAMBDA c : c \notin MacSeparators)

\* MacAddress::from_str: strip the separators, require 12 characters, read six pairs
MacFromStr(text) ==
    LET s == WithoutSeparators(text)
        byte(i) == U8FromStrRadix16(SubSeq(s, 2 * i + 1, 2 * i + 2))
    IN  IF Len(s) # 12 THEN Err("MAC address must be 12 hex digits")
        ELSE IF \E i \in 0..5 : byte(i) = <<>>
        THEN Err("Invalid hex digit in MAC address")
        ELSE Ok([i \in 1..6 |-> byte(i - 1)[1]])

\* "{:02x}": two lowercase hexadecimal digits
Hex02(b) == <<HexChars[(b \div 16) + 1], HexChars[(b % 16) + 1]>>
\* Display for MacAddress: "{:02x}:{:02x}:{:02x}:{:02x}:{:02x}:{:02x}"
MacToString(mac) ==
    Hex02(mac[1]) \o <<":">> \o Hex02(mac[2]) \o <<":">> \o Hex02(mac[3]) \o <<":">>
        \o Hex02(mac[4]) \o <<":">> \o Hex02(mac[5]) \o <<":">> \o Hex02(mac[6])

\* inputs: every u16 for VlanId::new
VlanIdInputs == 0..U16_MAX
\* inputs for from_mbps: the eight values, their neighbours, the multiples of 1000 up
\* to 400000, and 0, 100 and 2^31 - 1 of the u32 range
MbpsInputs ==
    UNION {{AsMbps(x) - 1, AsMbps(x), AsMbps(x) + 1} : x \in PortSpeeds}
        \cup {1000 * k : k \in 0..400} \cup {100, 2147483647}
\* inputs for the MAC functions: bytes with and without letters and leading zero
MacBytes == {0, 10, 171, 255}
MacInputs == [1..6 -> MacBytes]
\* how an accepted text is written: the separator, the digits between two separators,
\* and the case of the letters
MacStyles ==
    {[sep |-> ":", group |-> 2], [sep |-> "-", group |-> 2], [sep |-> ".", group |-> 4]}
MacCases == {"lower", "upper", "mixed"}
HexPair(b, case) ==
    CASE case = "lower" -> <<HexChars[(b \div 16) + 1], HexChars[(b % 16) + 1]>>
      [] case = "upper" -> <<UpperHexChars[(b \div 16) + 1], UpperHexChars[(b % 16) + 1]>>
      [] case = "mixed" -> <<UpperHexChars[(b \div 16) + 1], HexChars[(b % 16) + 1]>>
RECURSIVE Grouped(_, _, _)
\* the digits with the separator after every group
Grouped(digits, sep, group) ==
    IF Len(digits) <= group THEN digits
    ELSE SubSeq(digits, 1, group) \o <<sep>>
            \o Grouped(SubSeq(digits, group + 1, Len(digits)), sep, group)
\* the text of a MAC in a style and case
MacText(mac, style, case) ==
    Grouped(HexPair(mac[1], case) \o HexPair(mac[2], case) \o HexPair(mac[3], case)
              \o HexPair(mac[4], case) \o HexPair(mac[5], case) \o HexPair(mac[6], case),
            style.sep, style.group)

\* a call is about to be made on one input: VlanId::new on a u16, as_mbps on a speed,
\* from_mbps on a u32, to_string on a MAC, parse on a MAC text
Calling(fn, arg) == [fn |-> fn, arg |-> arg, out |-> <<>>]
TypesInit ==
    /\ PipelineInit
    /\ connections = EmptyMap
    /\ sessions = <<>>
    /\ callers = <<>>
    /\ \/ \E id \in VlanIdInputs : calc = Calling("VlanId", id)
       \/ \E speed \in PortSpeeds : calc = Calling("PortSpeed", speed)
       \/ \E mbps \in MbpsInputs : calc = Calling("Mbps", mbps)
       \/ \E mac \in MacInputs : calc = Calling("MacAddress", mac)
       \/ \E mac \in MacInputs, style \in MacStyles, case \in MacCases :
              calc = Calling("MacText", MacText(mac, style, case))

Returned(value) ==
    /\ calc' = [calc EXCEPT !.out = Append(@, value)]
    /\ UNCHANGED <<db, daemons, connections, sessions, callers>>

\* VlanId::new(id)
VlanIdNewCall ==
    /\ calc.fn = "VlanId" /\ Len(calc.out) = 0
    /\ Returned(VlanIdNew(calc.arg))
\* .get() on the VlanId that new returned
VlanIdGetCall ==
    /\ calc.fn = "VlanId" /\ Len(calc.out) = 1 /\ calc.out[1] # <<>>
    /\ Returned(VlanIdGet(calc.out[1][1]))
\* speed.as_mbps()
AsMbpsCall ==
    /\ calc.fn = "PortSpeed" /\ Len(calc.out) = 0
    /\ Returned(AsMbps(calc.arg))
\* PortSpeed::from_mbps, on the input or on what as_mbps returned
FromMbpsCall ==
    \/ /\ calc.fn = "Mbps" /\ Len(calc.out) = 0
       /\ Returned(FromMbps(calc.arg))
    \/ /\ calc.fn = "PortSpeed" /\ Len(calc.out) = 1
       /\ Returned(FromMbps(calc.out[1]))
\* mac.to_string(), on the input or on what parse returned
MacToStringCall ==
    \/ /\ calc.fn = "MacAddress" /\ Len(calc.out) = 0
       /\ Returned(MacToString(calc.arg))
    \/ /\ calc.fn = "MacText" /\ Len(calc.out) = 1 /\ calc.out[1].ok
       /\ Returned(MacToString(calc.out[1].val[1]))
\* text.parse::<MacAddress>(), on the input or on what to_string returned
MacFromStrCall ==
    \/ /\ calc.fn = "MacText" /\ Len(calc.out) = 0
       /\ Returned(MacFromStr(calc.arg))
    \/ /\ calc.fn = "MacAddress" /\ Len(calc.out) = 1
       /\ Returned(MacFromStr(calc.out[1]))
    \/ /\ calc.fn = "MacText" /\ Len(calc.out) = 2
       /\ Returned(MacFromStr(calc.out[2]))

TypesNext ==
    \/ VlanIdNewCall
    \/ VlanIdGetCall
    \/ AsMbpsCall
    \/ FromMbpsCall
    \/ MacToStringCall
    \/ MacFromStrCall
TypesSpec == TypesInit /\ [][TypesNext]_vars

\* ------------------------------------------------- racoon-sai wrappers
\* the statuses SaiStatus's Display names; any other code prints UNKNOWN_STATUS
DisplayedStatuses ==
    {"SUCCESS", "FAILURE", "NOT_SUPPORTED", "NO_MEMORY", "INSUFFICIENT_RESOURCES",
     "INVALID_PARAMETER", "ITEM_ALREADY_EXISTS", "ITEM_NOT_FOUND", "BUFFER_OVERFLOW",
     "INVALID_PORT_NUMBER", "INVALID_PORT_MEMBER", "INVALID_VLAN_ID", "UNINITIALIZED",
     "TABLE_FULL", "MANDATORY_ATTRIBUTE_MISSING", "NOT_IMPLEMENTED", "ADDR_NOT_FOUND",
     "OBJECT_IN_USE", "INVALID_OBJECT_TYPE", "INVALID_OBJECT_ID", "INVALID_NV_STORAGE",
     "NV_STORAGE_FULL", "INVALID_ATTRIBUTE_0"}
\* sai_status_t values a vendor can return: the named ones and two Display has no arm for
VendorStatuses == DisplayedStatuses \cup {"UNLISTED_A", "UNLISTED_B"}

\* Display for SaiStatus: write!(f, "SAI_{} ({})", msg, self.0)
SaiDisplay(status) ==
    [msg |-> IF status \in DisplayedStatuses THEN status ELSE "UNKNOWN_STATUS",
     code |-> status]
\* to_result with the error value spelled out: RacoonError::Sai(self.to_string())
SaiError(status) == [ok |-> FALSE, val |-> <<>>, err |-> "Sai", text |-> SaiDisplay(status)]
ToResult(status) == IF SaiToResult(status).ok THEN Ok("unit") ELSE SaiError(status)

\* the per-feature wrappers and what each returns on success
Wrappers ==
    {[api |-> "VlanApi", fn |-> "create_vlan", gives |-> "oid"],
     [api |-> "VlanApi", fn |-> "remove_vlan", gives |-> "unit"],
     [api |-> "VlanApi", fn |-> "create_vlan_member", gives |-> "oid"],
     [api |-> "VlanApi", fn |-> "remove_vlan_member", gives |-> "unit"],
     [api |-> "VlanApi", fn |-> "set_attribute", gives |-> "unit"],
     [api |-> "VlanApi", fn |-> "get_attribute", gives |-> "attribute"],
     [api |-> "FdbApi", fn |-> "create_fdb_entry", gives |-> "unit"],
     [api |-> "FdbApi", fn |-> "remove_fdb_entry", gives |-> "unit"],
     [api |-> "FdbApi", fn |-> "flush_fdb_entries", gives |-> "unit"],
     [api |-> "LagApi", fn |-> "create_lag", gives |-> "oid"],
     [api |-> "LagApi", fn |-> "remove_lag", gives |-> "unit"],
     [api |-> "LagApi", fn |-> "create_lag_member", gives |-> "oid"],
     [api |-> "LagApi", fn |-> "remove_lag_member", gives |-> "unit"],
     [api |-> "LagApi", fn |-> "set_attribute", gives |-> "unit"],
     [api |-> "PortApi", fn |-> "set_attribute", gives |-> "unit"],
     [api |-> "PortApi", fn |-> "get_attribute", gives |-> "attribute"],
     [api |-> "PortApi", fn |-> "get_stats", gives |-> "counters"],
     [api |-> "PortApi", fn |-> "clear_stats", gives |-> "unit"],
     [api |-> "SwitchApi", fn |-> "create_switch", gives |-> "oid"],
     [api |-> "SwitchApi", fn |-> "remove_switch", gives |-> "unit"],
     [api |-> "SwitchApi", fn |-> "set_attribute", gives |-> "unit"],
     [api |-> "SwitchApi", fn |-> "get_attribute", gives |-> "attribute"]}

\* faulty variant: the function is called through the table without looking at the pointer
Dispatch_Unchecked(present, answer) == [called |-> TRUE, status |-> answer]
\* if let Some(f) = api.<fn> { f(..) } else { SAI_STATUS_NOT_IMPLEMENTED }
Dispatch(present, answer) ==
    IF present THEN [called |-> TRUE, status |-> answer]
    ELSE [called |-> FALSE, status |-> "NOT_IMPLEMENTED"]
\* SaiStatus::from(status).to_result()?; Ok(<what the vendor wrote>)
WrapperResult(wrapper, status) ==
    IF ToResult(status).ok THEN Ok(wrapper.gives) ELSE ToResult(status)

\* a wrapper call: the table entry is present or not, answer is what the vendor would say
WrapperInit ==
    /\ PipelineInit
    /\ connections = EmptyMap
    /\ sessions = <<>>
    /\ callers = <<>>
    /\ \E wrapper \in Wrappers, present \in BOOLEAN, answer \in VendorStatuses :
         calc = Calling("Wrapper", [wrapper |-> wrapper, present |-> present,
                                    answer |-> answer])
\* the unsafe block: look the pointer up and call it when it is there
WrapperDispatch ==
    /\ calc.fn = "Wrapper" /\ Len(calc.out) = 0
    /\ Returned(Dispatch(calc.arg.present, calc.arg.answer))
\* the tail of the wrapper: translate the status and return
WrapperReturn ==
    /\ calc.fn = "Wrapper" /\ Len(calc.out) = 1
    /\ Returned(WrapperResult(calc.arg.wrapper, calc.out[1].status))
WrapperNext == WrapperDispatch \/ WrapperReturn
WrapperSpec == WrapperInit /\ [][WrapperNext]_vars

\* -------------------------------------------------- racoon-sai adapter
\* the bootstrap symbols in the order load resolves them
BootstrapSymbols == <<"sai_api_query", "sai_api_initialize", "sai_api_uninitialize">>
\* the feature areas in the order load queries them
QueriedApis == <<"SWITCH", "PORT", "VLAN", "FDB", "LAG", "BRIDGE">>
\* what api_query leaves in the out pointer
TablePointers == {"null", "table"}

\* one entry of the log of what load and drop did: a call into the library or the
\* vendor with its outcome, or the return of load
Event(call, arg, status, out) == [call |-> call, arg |-> arg, status |-> status, out |-> out]
LoadReturn(status) == Event("return", "-", status, "-")
Logged(events) ==
    /\ calc' = [calc EXCEPT !.out = @ \o events]
    /\ UNCHANGED <<db, daemons, connections, sessions, callers>>
LoadRunning ==
    /\ calc.fn = "SaiAdapter"
    /\ \A i \in 1..Len(calc.out) : calc.out[i].call # "return"

\* SaiAdapter::query_api: the status first, then the null check
QueryApi(status, ptr) ==
    IF ~SaiToResult(status).ok THEN Err("Sai")
    ELSE IF ptr = "null" THEN Err("Sai")
    ELSE Ok(ptr)

\* SaiAdapter::load(library_path) is called
AdapterInit ==
    /\ PipelineInit
    /\ connections = EmptyMap
    /\ sessions = <<>>
    /\ callers = <<>>
    /\ calc = Calling("SaiAdapter", "libsai.so")
\* Library::new(library_path), a failure is LibraryLoad
LoadLibrary ==
    /\ LoadRunning /\ Len(calc.out) = 0
    /\ \E found \in BOOLEAN :
         Logged(IF found THEN <<Event("Library::new", calc.arg, "Ok", "-")>>
                ELSE <<Event("Library::new", calc.arg, "Err", "-"),
                       LoadReturn("LibraryLoad")>>)
\* library.get(symbol) for the next bootstrap symbol, a missing one is LibraryLoad
GetSymbol ==
    /\ LoadRunning /\ Len(calc.out) \in 1..Len(BootstrapSymbols)
    /\ \E found \in BOOLEAN :
         Logged(IF found THEN <<Event("get", BootstrapSymbols[Len(calc.out)], "Ok", "-")>>
                ELSE <<Event("get", BootstrapSymbols[Len(calc.out)], "Err", "-"),
                       LoadReturn("LibraryLoad")>>)
\* api_initialize(0, &service_table); SaiStatus::from(status).to_result()?
ApiInitialize ==
    /\ LoadRunning /\ Len(calc.out) = Len(BootstrapSymbols) + 1
    /\ \E status \in VendorStatuses :
         Logged(IF SaiToResult(status).ok
                THEN <<Event("api_initialize", "0", status, "-")>>
                ELSE <<Event("api_initialize", "0", status, "-"),
                       LoadReturn(SaiToResult(status).err)>>)
\* Self::query_api(&api_query, <area>)? for the next area; after the last one
\* load returns Ok(Arc::new(Self { .. }))
QueryNext ==
    /\ LoadRunning /\ Len(calc.out) > Len(BootstrapSymbols) + 1
    /\ LET n == Len(calc.out) - Len(BootstrapSymbols) - 1
       IN  \E status \in VendorStatuses, ptr \in TablePointers :
             Logged(IF ~QueryApi(status, ptr).ok
                    THEN <<Event("api_query", QueriedApis[n], status, ptr),
                           LoadReturn(QueryApi(status, ptr).err)>>
                    ELSE IF n = Len(QueriedApis)
                    THEN <<Event("api_query", QueriedApis[n], status, ptr),
                           LoadReturn("Ok")>>
                    ELSE <<Event("api_query", QueriedApis[n], status, ptr)>>)
\* Drop for SaiAdapter: the last Arc goes away; the status is only logged
DropAdapter ==
    /\ calc.fn = "SaiAdapter" /\ Len(calc.out) > 0
    /\ calc.out[Len(calc.out)] = LoadReturn("Ok")
    /\ \E status \in VendorStatuses :
         Logged(<<Event("api_uninitialize", "-", status, "-")>>)
AdapterNext ==
    \/ LoadLibrary
    \/ GetSymbol
    \/ ApiInitialize
    \/ QueryNext
    \/ DropAdapter
AdapterSpec == AdapterInit /\ [][AdapterNext]_vars

\* ================================================================== claims
Quiescent == Idle

ValidBody(j) == VlanIdNew(FromJson(j).vlanid) # <<>>
\* the Asic keys whose record carries the VLAN id
AsicRecordsOf(vid) == {k \in DOMAIN db["Asic"] : db["Asic"][k].vlanid = vid}
TrackedOids == {syncVlans[v].sai_oid : v \in DOMAIN syncVlans}

C3_MapAgreesWithAsic ==
    syncTask.pc = "recv" => {AsicKey(oid) : oid \in TrackedOids} = DOMAIN db["Asic"]

\* C4: OID uniqueness. No two Asic records carry the same OID, each record sits at the
\* key of its OID, and no two tracked VLAN ids share an OID.
C4_OidUniqueness ==
    /\ \A k1, k2 \in DOMAIN db["Asic"] : db["Asic"][k1].oid = db["Asic"][k2].oid => k1 = k2
    /\ \A k \in DOMAIN db["Asic"] : k = ASIC_VLAN_PREFIX \o db["Asic"][k].oid
    /\ \A v1, v2 \in DOMAIN syncVlans :
           syncVlans[v1].sai_oid = syncVlans[v2].sai_oid => v1 = v2
    /\ \A v \in DOMAIN syncVlans : syncVlans[v].vlan_id = v

\* C4 witness: two VLANs tracked and recorded in Asic
C4_Witness ==
    /\ Cardinality(DOMAIN syncVlans) = 2
    /\ Cardinality(DOMAIN db["Asic"]) = 2

\* C5: per-subscriber serial dispatch in arrival order. At most one handler invocation
\* of a subscriber is in progress; the one in progress is for the message that arrived
\* right after the last one whose handler returned; the last returned one is the latest.
SerialInOrder(sub, task, res) ==
    /\ loops[sub].running <= 1
    /\ task.pc # "recv" => loops[sub].running = 1 /\ task.n = loops[sub].handled + 1
    /\ res.n = loops[sub].handled

C5_SerialDispatch ==
    /\ SerialInOrder("orch", orchTask, orchRes)
    /\ SerialInOrder("sync", syncTask, syncRes)

\* C5 witness: a handler is running after an earlier one returned, with a later
\* message already waiting on the channel
C5_Witness ==
    /\ orchTask.pc # "recv"
    /\ loops["orch"].handled >= 1
    /\ chan[CONFIG_CH] # <<>>

Settled(name) ==
    /\ \A i \in DOMAIN chan[CONFIG_CH] : KeyOf(chan[CONFIG_CH][i].payload) # ConfigKey(name)
    /\ \A i \in DOMAIN chan[VLAN_CH] : KeyOf(chan[VLAN_CH][i].payload) # name
    /\ orchTask.pc # "recv" => orchTask.name # name
    /\ syncTask.pc # "recv" => syncTask.name # name

OutOfRange(v) == v = 0 \/ v > MAX_VLAN_ID
\* orchd's handler is about to read a Config record whose vlanid is out of range
ReadsInvalid ==
    /\ orchTask.pc = "get_config"
    /\ Has(db["Config"], ConfigKey(orchTask.name))
    /\ OutOfRange(FromJson(db["Config"][ConfigKey(orchTask.name)]).vlanid)
NothingInvalidDownstream ==
    /\ \A k \in DOMAIN db["Appl"] : ~OutOfRange(FromJson(db["Appl"][k]).vlanid)
    /\ \A v \in DOMAIN orchVlans : ~OutOfRange(v)
    /\ \A i \in DOMAIN chan[VLAN_CH] :
           "data" \in DOMAIN chan[VLAN_CH][i].payload =>
               ~OutOfRange(FromJson(chan[VLAN_CH][i].payload.data).vlanid)
    /\ \A k \in DOMAIN db["Asic"] : ~OutOfRange(db["Asic"][k].vlanid)
    /\ \A v \in DOMAIN syncVlans : ~OutOfRange(v)

\* C8: invalid VLAN ids never propagate. The step in which process_vlan_config, called
\* for a notification or by the bulk reconcile of start(), reads a Config record with
\* vlanid 0 or above 4094 ends it with InvalidVlanId (with a Database error when the
\* read itself failed) and leaves Appl, orchd's map, the VLAN_TABLE channel and Asic as
\* they were; and no Appl entry, map entry, VLAN_TABLE notification or Asic record ever
\* carries such a vlanid.
C8_InvalidNeverPropagates ==
    /\ [][ReadsInvalid /\ orchTask' # orchTask =>
              /\ orchTask'.pc = IF orchTask.boot THEN "sync_next" ELSE "recv"
              /\ orchRes'.n = orchTask.n /\ orchRes'.name = orchTask.name
              /\ orchRes'.res = IF faults' = faults THEN "InvalidVlanId" ELSE "Database"
              /\ db'["Appl"] = db["Appl"]
              /\ orchVlans' = orchVlans
              /\ chan'[VLAN_CH] = chan[VLAN_CH]
              /\ db'["Asic"] = db["Asic"]]_vars
    /\ []NothingInvalidDownstream

\* C8 witness: after the bulk reconcile had rejected an out-of-range record with
\* InvalidVlanId and projected a valid one, a notification for another out-of-range
\* record was rejected too; the valid VLAN has gone all the way to Asic
C8_Witness ==
    /\ orchRes.res = "InvalidVlanId" /\ orchRes.op = "SET" /\ orchRes.n = 1
    /\ Has(db["Config"], ConfigKey(orchRes.name))
    /\ OutOfRange(FromJson(db["Config"][ConfigKey(orchRes.name)]).vlanid)
    /\ Cardinality({k \in DOMAIN db["Config"] :
                       OutOfRange(FromJson(db["Config"][k]).vlanid)}) = 2
    /\ arrived[CONFIG_CH] = 1
    /\ Cardinality(DOMAIN db["Appl"]) = 1
    /\ Cardinality(DOMAIN db["Asic"]) = 1

AsicRemovalFollowsAppl ==
    \A name \in DOMAIN removals.asic : removals.asic[name] <= Removals("appl", name)

C10_AlreadyExistsOnCreate ==
    syncRes.call.fn = "create_vlan" /\ syncRes.call.status = "ITEM_ALREADY_EXISTS" =>
        /\ syncRes.res = "Ok" <=> syncRes.call.tracked
        /\ ~syncRes.call.tracked => syncRes.res = "Sai"

\* C10 witness: a create_vlan that the vendor refused with ITEM_ALREADY_EXISTS was
\* surfaced as an error, nothing being tracked or recorded for the VLAN
C10_Witness ==
    /\ syncRes.call.fn = "create_vlan" /\ syncRes.call.status = "ITEM_ALREADY_EXISTS"
    /\ syncRes.res = "Sai"
    /\ syncVlans = EmptyMap /\ db["Asic"] = EmptyMap /\ db["Appl"] # EmptyMap

\* the VLAN id that delete_vlan derives from the name of the last finished handler
LastSyncVid == VlanIdOfName(syncRes.name).val[1]

\* C11 (violated): ITEM_NOT_FOUND on remove is success. When the vendor answered
\* ITEM_NOT_FOUND to the remove_vlan of a DEL, the handler returns Ok, syncd's map has no
\* entry for the VLAN and Asic has no record for it.
C11_NotFoundOnRemoveIsSuccess ==
    syncRes.call.fn = "remove_vlan" /\ syncRes.call.status = "ITEM_NOT_FOUND"
      /\ syncTask.pc = "recv" =>
        /\ syncRes.res = "Ok"
        /\ ~Has(syncVlans, LastSyncVid)
        /\ AsicRecordsOf(LastSyncVid) = {}

\* start() has returned and syncd is about to subscribe
SyncStarted == syncTask.pc = "subscribe"
\* the Appl entries that carry the VLAN id
ApplEntriesOf(vid) == {k \in DOMAIN db["Appl"] : FromJson(db["Appl"][k]).vlanid = vid}

\* C12 (violated): when syncd's start() has returned, the in-memory map holds an
\* entry for every VLAN record of Asic, with the OID that the record carries
C12_MapRebuiltFromAsic ==
    SyncStarted =>
        \A k \in DOMAIN db["Asic"] :
            /\ Has(syncVlans, db["Asic"][k].vlanid)
            /\ AsicKey(syncVlans[db["Asic"][k].vlanid].sai_oid) = k

\* C13 (violated): when syncd's start() has returned, every VLAN record that was in
\* Asic with no Appl entry when start() was called, and has none now, has been
\* removed from the vendor and deleted from Asic
C13_OrphansCollectedOnStart ==
    SyncStarted =>
        \A k \in syncTask.orphans :
            \/ k \notin DOMAIN db["Asic"]
            \/ ApplEntriesOf(db["Asic"][k].vlanid) # {}

\* C14 (violated): when syncd's start() has returned after a crash between the
\* vendor's create_vlan and the Asic write, the VLAN that Appl and the vendor both
\* hold is tracked in the map and recorded in Asic
C14_MidFlightCreateCompleted ==
    SyncStarted =>
        \A vid \in {hw[oid] : oid \in DOMAIN hw} :
            ApplEntriesOf(vid) # {} =>
                /\ Has(syncVlans, vid)
                /\ AsicRecordsOf(vid) # {}

\* the VLAN ids that the vendor, Asic or syncd's map know of
KnownVlanIds ==
    {hw[oid] : oid \in DOMAIN hw} \cup {db["Asic"][k].vlanid : k \in DOMAIN db["Asic"]}
        \cup DOMAIN syncVlans

Undecodable(payload) ==
    \/ "raw" \in DOMAIN payload
    \/ "operation" \notin DOMAIN payload
    \/ payload.operation \notin {"SET", "CREATE", "DEL", "DELETE"}
\* this step hands the oldest message of the channel, an undecodable one, to the handler
Discards(c) ==
    /\ chan[c] # <<>>
    /\ Undecodable(Head(chan[c]).payload)
    /\ chan'[c] = Tail(chan[c])

\* C16: undecodable notifications have no effect. The step in which orchd or syncd
\* handles a notification that is not JSON, or whose operation is not SET, CREATE, DEL
\* or DELETE, leaves Config, Appl, Asic, both maps and the vendor's objects as they
\* were, publishes nothing, and ends the handler: the daemon is back at its loop, so
\* no store or vendor call follows on behalf of that notification.
C16_UndecodableHasNoEffect ==
    [][/\ Discards(CONFIG_CH) =>
            /\ UNCHANGED <<db, orchVlans, syncVlans, hw, issued>>
            /\ chan'[VLAN_CH] = chan[VLAN_CH]
            /\ orchTask' = orchTask /\ orchTask.pc = "recv"
            /\ orchRes'.res \in {"Serialization", "Ignored"}
       /\ Discards(VLAN_CH) =>
            /\ UNCHANGED <<db, orchVlans, syncVlans, hw, issued>>
            /\ chan'[CONFIG_CH] = chan[CONFIG_CH]
            /\ syncTask' = syncTask /\ syncTask.pc = "recv"
            /\ syncRes'.res \in {"Serialization", "Ignored"}]_vars

\* C16 witness: with a VLAN programmed down to Asic, orchd has dropped a notification
\* that is not JSON and syncd one with an unknown operation
C16_Witness ==
    /\ orchRes.res = "Serialization"
    /\ syncRes.res = "Ignored" /\ syncRes.op = "FLUSH"
    /\ db["Asic"] # EmptyMap
    /\ Quiescent

\* the outcomes of a handler whose per-record work failed: store error, validation
\* error, vendor error
RecordFailures == {"Database", "InvalidVlanId", "Sai"}
\* the messages of the channel are all newer than the one the handler last finished
NotRequeued(c, res) == \A i \in DOMAIN chan[c] : chan[c][i].n > res.n

\* after a failed handler the loop is polling the stream, or on a newer message
LoopRuns(c, task, res) ==
    res.res \in RecordFailures =>
        /\ NotRequeued(c, res)
        /\ (task.pc # "recv" => task.n > res.n)
        /\ (task.pc = "recv" => Polls(task, res))

\* C17: per-record failures do not stop the loop. After a handler invocation that
\* failed, the daemon is back at its subscribe loop, polling the stream for the next
\* message, and the one it then handles is newer than the failed one; the failed message is not put back on the channel, and a handler that has
\* failed takes no further step for its record.
C17_FailureKeepsLoopRunning ==
    /\ [](LoopRuns(CONFIG_CH, orchTask, orchRes))
    /\ [](LoopRuns(VLAN_CH, syncTask, syncRes))
    /\ [][orchRes' # orchRes /\ orchRes'.res \in RecordFailures => orchTask'.pc = "recv"]_vars
    /\ [][syncRes' # syncRes /\ syncRes'.res \in RecordFailures => syncTask'.pc = "recv"]_vars

\* C17 witness: orchd's first handler failed on a store error and syncd's on a vendor
\* error or nothing reached it; orchd has since handled the second message with success
C17_Witness ==
    /\ faults["orch"] = 1
    /\ orchTask.pc = "recv"
    /\ orchRes.n = 2 /\ orchRes.res = "Ok"
    /\ loops["orch"].handled = 2

\* the daemon's subscribe returned ConnectionLost and its process ended with a nonzero
\* status
EndedOnConnectionLost(task, res) ==
    /\ res.op = "subscribe"
    /\ res.res = "ConnectionLost"
    /\ task.exit # <<>> /\ task.exit # <<0>>

\* C18 (violated): whole-loop failure is fatal. When the pub/sub channel of a daemon
\* has closed, subscribe has returned a ConnectionLost error and the daemon has ended
\* with a nonzero exit status.
C18_ClosedChannelIsFatal ==
    /\ orchTask.pc = "exited" => EndedOnConnectionLost(orchTask, orchRes)
    /\ syncTask.pc = "exited" => EndedOnConnectionLost(syncTask, syncRes)

\* every valid VLAN key of Config has its VLAN_TABLE entry in Appl, with the same
\* vlanid and description
ConfigIsInAppl ==
    \A k \in DOMAIN db["Config"] :
        ValidBody(db["Config"][k]) =>
            LET name == StripPrefix(k, CONFIG_VLAN_PREFIX)[1]
            IN  /\ Has(db["Appl"], ApplKey(name))
                /\ FromJson(db["Appl"][ApplKey(name)]) = FromJson(db["Config"][k])
\* no VLAN_TABLE entry is in Appl whose Config key is absent
NoStaleAppl ==
    \A a \in DOMAIN db["Appl"] :
        Has(db["Config"], ConfigKey(StripPrefix(a, APPL_VLAN_PREFIX)[1]))
\* orchd's start() has returned and the configurator has done nothing since it was called
OrchStartedUndisturbed == orchTask.pc = "subscribe" /\ orchTask.since = ops

\* C19 (violated): eventual consistency after a restart of orchd. When start() has
\* returned with no Config change since it was called, every valid VLAN key of Config
\* has its entry in Appl and Appl has no entry whose Config key is absent.
C19_ConsistentAfterOrchdRestart ==
    OrchStartedUndisturbed => ConfigIsInAppl /\ NoStaleAppl

\* C20 (violated): no change is lost around start-up. Once orchd has started and
\* subscribed and nothing is left to process, Appl reflects Config: changes made before
\* the key snapshot were loaded by it, and changes announced after it, the ones made
\* before the subscription was established included, have been applied.
C20_NoChangeLostAroundStartup ==
    Quiescent /\ ~orchTask.boot => ConfigIsInAppl /\ NoStaleAppl

\* the result of the n-th call of a caller's script, once it has been made
Made(c, n) == Len(c.out) >= n

\* C21: store round trip. In every caller's script the get that follows set(d,k,v)
\* returns v, the get that follows the later set(d,k,w) returns w, the exists that
\* follows del(d,k) returns false, and both the del of the existing key and the del of
\* the key already removed succeed - whatever the other caller does meanwhile to
\* another key or another DB.
C21_StoreRoundTrip ==
    \A t \in DOMAIN callers :
        LET c == callers[t]
        IN  /\ Made(c, 1) => c.out[1].ok
            /\ Made(c, 2) => c.out[2] = Ok(c.v)
            /\ Made(c, 4) => c.out[4] = Ok(c.w)
            /\ Made(c, 5) => c.out[5].ok
            /\ Made(c, 6) => c.out[6] = Ok(FALSE)
            /\ Made(c, 8) => c.out[8].ok

\* C21 witness: both callers have run their whole script on the same logical DB, the
\* one storing a value with a description and the other a value without
C21_Witness ==
    /\ callers # <<>>
    /\ \A t \in DOMAIN callers : callers[t].pc = "done"
    /\ callers[1].d = callers[2].d
    /\ callers[1].v.description # <<>>

\* C22 (violated): get on a missing key. The get of a key that the del has removed
\* fails with the NotFound error, and the key is still absent afterwards.
C22_GetMissingIsNotFound ==
    \A t \in DOMAIN callers :
        LET c == callers[t]
        IN  /\ Made(c, 7) => c.out[7] = Err("NotFound")
            /\ Len(c.out) = 7 => ~Has(db[c.d], c.k)

\* a caller's command is executed in this step, and it is a set or del on logical DB d
WritesTo(t, d) ==
    /\ callers[t].pc = "command"
    /\ callers'[t].step = callers[t].step + 1
    /\ callers[t].d = d
    /\ Script[callers[t].step] \in {"set", "del"}

\* C23: logical DB isolation. Every command a caller issues for logical DB d is
\* executed on a connection that has d's index selected, and the key-space of a
\* logical DB changes only in a step that executes a set or del issued for that DB:
\* what get, exists and keys return on another DB is untouched - in every
\* interleaving, concurrent first uses included.
C23_LogicalDbIsolation ==
    /\ [](\A t \in DOMAIN callers :
             callers[t].pc = "command" =>
                 sessions[callers[t].conn].selected = DatabaseIndex(callers[t].d))
    /\ [][\A d \in Databases :
             db'[d] # db[d] => \E t \in DOMAIN callers : WritesTo(t, d)]_vars

\* C23 witness: the two callers made their first use at the same time, each opening its
\* connection, and now hold the same key in two logical DBs with different values
C23_Witness ==
    /\ callers # <<>>
    /\ callers[1].d # callers[2].d /\ callers[1].k = callers[2].k
    /\ Len(sessions) = 2
    /\ Has(db[callers[1].d], callers[1].k) /\ Has(db[callers[2].d], callers[2].k)
    /\ db[callers[1].d][callers[1].k] # db[callers[2].d][callers[2].k]

\* the connections that were opened for the logical DB
SessionsFor(d) == {c \in DOMAIN sessions : sessions[c].db = d}

\* C28 (violated): single cached connection per logical DB. At most one connection is
\* ever opened for each logical DB, and every caller about to execute a command holds
\* the connection cached for its DB.
C28_SingleConnectionPerDb ==
    /\ \A d \in Databases : Cardinality(SessionsFor(d)) <= 1
    /\ \A t \in DOMAIN callers :
           callers[t].pc = "command" => callers[t].conn = connections[callers[t].d]

\* the handler that was in flight when subscribe was cancelled has returned
InFlightCompleted(task, res) == task.pc = "cancelled" /\ task.n # 0 => res.n = task.n

\* C24 (violated): cancellation of subscribe. When a subscribe call has been cancelled
\* while a handler invocation was in flight, that invocation has run to completion:
\* the handler has returned for the message it was handling.
C24_InFlightHandlerCompletes ==
    /\ InFlightCompleted(orchTask, orchRes)
    /\ InFlightCompleted(syncTask, syncRes)

\* C25: VlanId::new(id) returns a value if and only if 1 <= id <= 4094, for every u16
\* id, and then get() returns id.
C25_VlanIdRange ==
    calc.fn = "VlanId" =>
        /\ Len(calc.out) >= 1 => (calc.out[1] # <<>> <=> (1 <= calc.arg /\ calc.arg <= 4094))
        /\ Len(calc.out) >= 2 => calc.out[2] = calc.arg

\* C25 witness: the largest valid id was accepted and read back
C25_Witness ==
    calc.fn = "VlanId" /\ calc.arg = 4094 /\ Len(calc.out) = 2 /\ calc.out[2] = 4094

\* C27: port speed round trip. from_mbps(as_mbps(s)) = s for each of the eight speeds,
\* and from_mbps(m) is absent for every m that is not the Mbps value of a speed.
C27_PortSpeedRoundTrip ==
    /\ calc.fn = "PortSpeed" /\ Len(calc.out) = 2 => calc.out[2] = <<calc.arg>>
    /\ calc.fn = "Mbps" /\ Len(calc.out) = 1 =>
           (calc.arg \notin {1000, 10000, 25000, 40000, 50000, 100000, 200000, 400000}
              => calc.out[1] = <<>>)

\* C27 witness: 25G went through as_mbps and from_mbps
C27_Witness ==
    calc.fn = "PortSpeed" /\ calc.arg = "Speed25G" /\ calc.out = <<25000, <<"Speed25G">>>>

\* the lowercase colon form of a text: its digits, lowercased, in pairs joined by ':'
LowerOf(c) ==
    IF \E i \in 1..16 : UpperHexChars[i] = c
    THEN HexChars[CHOOSE i \in 1..16 : UpperHexChars[i] = c]
    ELSE c
LowerColonForm(text) ==
    LET digits == SelectSeq(text, LAMBDA c : c \notin {":", "-", "."})
        low == [i \in 1..Len(digits) |-> LowerOf(digits[i])]
    IN  <<low[1], low[2], ":", low[3], low[4], ":", low[5], low[6], ":",
          low[7], low[8], ":", low[9], low[10], ":", low[11], low[12]>>

\* C26: MAC round trip. Parsing what formatting a 6-byte MAC produced returns that
\* MAC; an accepted text (12 hexadecimal digits of any case separated by ':', '-' or
\* '.') parses, formatting the result gives its lowercase colon form, and that form
\* parses to the same six bytes.
C26_MacRoundTrip ==
    /\ calc.fn = "MacAddress" /\ Len(calc.out) = 2 => calc.out[2] = Ok(calc.arg)
    /\ calc.fn = "MacText" =>
           /\ Len(calc.out) >= 1 => calc.out[1].ok
           /\ Len(calc.out) >= 2 => calc.out[2] = LowerColonForm(calc.arg)
           /\ Len(calc.out) >= 3 => calc.out[3] = calc.out[1]

\* C26 witness: AB-00-FF-0A-AB-FF was parsed, formatted as ab:00:ff:0a:ab:ff and
\* parsed again
C26_Witness ==
    /\ calc.fn = "MacText"
    /\ calc.arg = <<"A", "B", "-", "0", "0", "-", "F", "F", "-", "0", "A", "-",
                    "A", "B", "-", "F", "F">>
    /\ Len(calc.out) = 3
    /\ calc.out[3] = Ok(<<171, 0, 255, 10, 171, 255>>)

\* the keys of Asic, and the VLAN ids of syncd's map
AsicKeys == DOMAIN db["Asic"]
SyncTracked == DOMAIN syncVlans
\* the vendor create_vlan of the running handler returned SUCCESS with the OID
CreatedWith(task, oid) ==
    /\ task.call.fn = "create_vlan" /\ task.call.status = "SUCCESS"
    /\ task.oid = oid
    /\ oid = VendorOid(issued')

\* C29: Asic records only after hardware success. A map entry is inserted, and an
\* ASIC_STATE:SAI_OBJECT_TYPE_VLAN:0x<oid> record is written, only after the vendor
\* create_vlan returned SUCCESS with that oid; a SET handler that returns an error from
\* reading Appl, from validating vlanid or from create_vlan leaves map and Asic as
\* they were.
C29_AsicOnlyAfterHwSuccess ==
    [][/\ \A vid \in SyncTracked' \ SyncTracked :
              /\ syncTask.pc = "create_hw"
              /\ CreatedWith(syncTask', syncVlans'[vid].sai_oid)
              /\ Has(hw', syncVlans'[vid].sai_oid)
       /\ \A k \in AsicKeys' \ AsicKeys :
              /\ syncTask.pc = "set_asic"
              /\ CreatedWith(syncTask, syncTask.oid)
              /\ k = AsicKey(syncTask.oid)
              /\ Has(syncVlans, syncTask.vid) /\ syncVlans[syncTask.vid].sai_oid = syncTask.oid
       /\ syncTask.pc \in {"get_appl", "create_hw"} /\ syncRes' # syncRes
            /\ syncRes'.res # "Ok" =>
              /\ syncVlans' = syncVlans
              /\ db'["Asic"] = db["Asic"]
              /\ hw' = hw
      ]_vars

\* C29 witness: one VLAN was created and recorded, then the create_vlan of another
\* failed, and map and Asic hold the first VLAN only
C29_Witness ==
    /\ syncRes.call.fn = "create_vlan" /\ syncRes.call.status = "FAILURE"
    /\ syncRes.res = "Sai" /\ syncTask.pc = "recv"
    /\ Cardinality(SyncTracked) = 1 /\ Cardinality(AsicKeys) = 1
    /\ \E vid \in SyncTracked :
           /\ vid # LastSyncVid
           /\ AsicKeys = {AsicKey(syncVlans[vid].sai_oid)}

\* the vendor remove_vlan of the handler returned SUCCESS
RemovedWith(task) == task.call.fn = "remove_vlan" /\ task.call.status = "SUCCESS"
\* delete_vlan hands the vendor the OID that the map holds for the VLAN
RemovesTrackedOid(task) ==
    task.pc = "remove_hw" =>
        Has(syncVlans, task.vid) /\ syncVlans[task.vid].sai_oid = task.oid

\* C30: vendor remove failure leaves syncd's state intact. In delete_vlan the map
\* entry is removed and the Asic key deleted only after the vendor remove_vlan returned
\* SUCCESS; when remove_vlan fails the handler returns the typed error
\* (RacoonError::Sai) and map entry and Asic record remain, so that a later DEL of the
\* key calls remove_vlan with the same OID.
C30_RemoveFailureKeepsState ==
    /\ [](RemovesTrackedOid(syncTask))
    /\ [][/\ \A vid \in SyncTracked \ SyncTracked' :
                 syncTask.pc = "remove_hw" /\ syncTask.vid = vid /\ RemovedWith(syncTask')
          /\ \A k \in AsicKeys \ AsicKeys' :
                 /\ syncTask.pc = "del_asic" /\ RemovedWith(syncTask)
                 /\ k = AsicKey(syncTask.oid)
          /\ syncTask.pc = "remove_hw" /\ syncRes' # syncRes =>
                 /\ syncRes'.call.fn = "remove_vlan" /\ syncRes'.call.status # "SUCCESS"
                 /\ syncRes'.res = "Sai"
                 /\ syncVlans' = syncVlans
                 /\ db'["Asic"] = db["Asic"]
         ]_vars

\* C30 witness: the remove_vlan of a DEL failed, and a second DEL of the same key has
\* reached remove_vlan with the OID that map and Asic still hold
C30_Witness ==
    /\ syncRes.op = "DEL" /\ syncRes.res = "Sai"
    /\ syncRes.call.fn = "remove_vlan" /\ syncRes.call.status = "FAILURE"
    /\ syncTask.pc = "remove_hw" /\ syncTask.name = syncRes.name
    /\ syncTask.n > syncRes.n
    /\ syncVlans[syncTask.vid].sai_oid = syncTask.oid
    /\ Has(db["Asic"], AsicKey(syncTask.oid))

\* orchd is running a DEL of a key that an earlier DEL already removed from Appl
OrchRepeatsDel ==
    /\ orchTask.pc \in {"del_appl", "publish_del"}
    /\ Removals("appl", orchTask.name) >= (IF orchTask.pc = "del_appl" THEN 1 ELSE 2)
    /\ ~Has(db["Appl"], ApplKey(orchTask.name))
\* syncd takes from the stream a DEL of a VLAN that its map does not hold
SyncRepeatsDel ==
    /\ syncTask.pc = "recv" /\ syncRes' # syncRes /\ syncRes'.op = "DEL"
    /\ VlanIdOfName(syncRes'.name).ok
    /\ ~Has(syncVlans, VlanIdOfName(syncRes'.name).val[1])

\* C31: DEL idempotence. Re-applying a DEL of a key after the first one changes
\* nothing: orchd leaves Appl and its map as they were; syncd, finding the VLAN id
\* absent from its map, returns Ok without calling the vendor and leaves Asic, its
\* map and the vendor's objects as they were.
C31_DelIdempotent ==
    [][/\ OrchRepeatsDel /\ orchTask' # orchTask =>
              db'["Appl"] = db["Appl"] /\ orchVlans' = orchVlans
       /\ SyncRepeatsDel =>
              /\ syncRes'.res = "Ok" /\ syncRes'.call = NoCall
              /\ syncTask'.pc = "recv"
              /\ db'["Asic"] = db["Asic"] /\ syncVlans' = syncVlans /\ hw' = hw
      ]_vars

\* C31 witness: the DEL of a key was applied twice by both daemons while Appl, Asic and
\* both maps hold another VLAN
C31_Witness ==
    /\ Quiescent
    /\ orchRes.op = "DEL" /\ orchRes.res = "Ok" /\ Removals("appl", orchRes.name) >= 2
    /\ syncRes.op = "DEL" /\ syncRes.res = "Ok" /\ syncRes.call = NoCall
    /\ syncRes.name = orchRes.name /\ loops["sync"].handled >= 3
    /\ db["Appl"] # EmptyMap /\ db["Asic"] # EmptyMap
    /\ orchVlans # EmptyMap /\ syncVlans # EmptyMap

\* the keys that sync_vlans enumerated with a valid record
ListedValid == {k \in DOMAIN orchTask.listed : ValidBody(orchTask.listed[k])}
\* each of them has its VLAN_TABLE entry in Appl with the vlanid and description of
\* the record that was enumerated
ListedAreInAppl ==
    \A k \in ListedValid :
        LET name == StripPrefix(k, CONFIG_VLAN_PREFIX)[1]
        IN  /\ Has(db["Appl"], ApplKey(name))
            /\ FromJson(db["Appl"][ApplKey(name)]) = FromJson(orchTask.listed[k])
\* start() has returned: main is about to subscribe
OrchStartReturned == orchTask.pc = "subscribe"
\* process_vlan_config, called by sync_vlans, returns an error
KeyFailsInSync ==
    /\ orchTask.boot /\ orchTask.pc \in {"get_config", "set_appl", "publish_set"}
    /\ orchRes' # orchRes /\ orchRes'.res # "Ok"

SetSucceededOnCreated ==
    /\ syncTask.pc = "recv" /\ syncRes.op = "SET" /\ syncRes.res = "Ok"
    /\ VlanIdOfName(syncRes.name).ok
    /\ VendorObjectsOf(LastSyncVid) # {}

\* C33 (violated): republishing repairs a partial create. After a create whose vendor
\* call succeeded and whose Asic write failed, a later SET of the same key, processed
\* with every store call served, leaves the Asic record of the VLAN present: whenever
\* a SET handler has returned Ok for a VLAN that the vendor holds, Asic has its record.
C33_RepublishRepairsPartialCreate ==
    SetSucceededOnCreated => AsicRecordsOf(LastSyncVid) # {}

\* the keys of a logical DB that a step creates, rewrites or removes
Touched(d) ==
    {k \in DOMAIN db[d] \cup DOMAIN db'[d] :
        ~(Has(db[d], k) /\ Has(db'[d], k) /\ db'[d][k] = db[d][k])}
StartsWith(k, text) == Len(k) >= Len(text) /\ SubSeq(k, 1, Len(text)) = text
\* a step of a running daemon, as opposed to the death of its process
OrchdActs == (orchTask' # orchTask \/ orchRes' # orchRes) /\ faults'.crash = faults.crash
SyncdActs == (syncTask' # syncTask \/ syncRes' # syncRes) /\ faults'.crash = faults.crash

\* C34: store ownership. Every step of orchd (start, handle_notification) leaves Config,
\* Asic and every other logical DB but Appl unchanged and touches only VLAN_TABLE:
\* keys of Appl; every step of syncd leaves every logical DB but Asic unchanged and
\* touches only ASIC_STATE: keys of Asic; the map of a running daemon changes only in
\* that daemon's own create and delete paths.
C34_StoreOwnership ==
    [][/\ OrchdActs =>
              /\ \A d \in Databases \ {"Appl"} : db'[d] = db[d]
              /\ \A k \in Touched("Appl") :
                     StartsWith(k, <<"V", "L", "A", "N", "_", "T", "A", "B", "L", "E", ":">>)
              /\ syncVlans' = syncVlans
       /\ SyncdActs =>
              /\ \A d \in Databases \ {"Asic"} : db'[d] = db[d]
              /\ \A k \in Touched("Asic") :
                     StartsWith(k, <<"A", "S", "I", "C", "_", "S", "T", "A", "T", "E", ":">>)
              /\ orchVlans' = orchVlans
       /\ orchVlans' # orchVlans /\ faults'.crash = faults.crash =>
              orchTask.pc \in {"set_appl", "del_appl"}
       /\ syncVlans' # syncVlans /\ faults'.crash = faults.crash =>
              syncTask.pc \in {"create_hw", "remove_hw"}
      ]_vars

\* C34 witness: after a restart, both daemons have written and deleted: Appl and Asic
\* hold a VLAN, and an entry was removed from each
C34_Witness ==
    /\ Quiescent /\ faults.crash = 1
    /\ db["Config"] # EmptyMap /\ db["Appl"] # EmptyMap /\ db["Asic"] # EmptyMap
    /\ DOMAIN removals.appl # {} /\ DOMAIN removals.asic # {}

\* a notification joins the VLAN_TABLE stream in this step
Notified == arrived'[VLAN_CH] = arrived[VLAN_CH] + 1
NewNotification == chan'[VLAN_CH][Len(chan'[VLAN_CH])].payload
\* the pending notifications about a name, and the newest of them
PendingAbout(name) ==
    {i \in DOMAIN chan[VLAN_CH] :
        "key" \in DOMAIN chan[VLAN_CH][i].payload /\ chan[VLAN_CH][i].payload.key = name}
NewestAbout(name) ==
    chan[VLAN_CH][CHOOSE i \in PendingAbout(name) : \A j \in PendingAbout(name) : j <= i].payload
\* what Appl holds for a name is what the notification tells
Tells(m) ==
    IF m.operation = "SET"
    THEN Has(db["Appl"], ApplKey(m.key)) /\ db["Appl"][ApplKey(m.key)] = m.data
    ELSE ~Has(db["Appl"], ApplKey(m.key))
NotifiedNames == {VlanName(id) : id \in InputIds}

\* C35: write before notify. orchd publishes a SET notification for name N only after
\* its write of VLAN_TABLE:N succeeded, and a DEL only after its delete succeeded: in
\* the step that publishes, Appl already holds what the notification tells. Hence what
\* a subscriber reads is never older than the notification: while orchd is not in the
\* middle of a later operation on N, and none of its publishes has failed, Appl holds
\* for N what the newest pending notification about N tells.
C35_WriteBeforeNotify ==
    /\ [][Notified =>
              /\ orchTask.pc = (IF NewNotification.operation = "SET"
                                THEN "publish_set" ELSE "publish_del")
              /\ NewNotification.key = orchTask.name
              /\ IF NewNotification.operation = "SET"
                 THEN /\ Has(db["Appl"], ApplKey(orchTask.name))
                      /\ db["Appl"][ApplKey(orchTask.name)] = NewNotification.data
                 ELSE ~Has(db["Appl"], ApplKey(orchTask.name))]_vars
    /\ [](\A name \in NotifiedNames :
              PendingAbout(name) # {} /\ faults.orch = 0
                /\ (orchTask.pc = "recv" \/ orchTask.name # name) =>
                  Tells(NewestAbout(name)))

\* C35 witness: a SET and then a DEL of the same name are pending on VLAN_TABLE, both
\* published after their Appl write, and Appl has no entry for the name
C35_Witness ==
    /\ orchTask.pc = "recv" /\ orchRes.op = "DEL" /\ orchRes.res = "Ok"
    /\ Cardinality(PendingAbout(orchRes.name)) = 2
    /\ NewestAbout(orchRes.name).operation = "DEL"
    /\ ~Has(db["Appl"], ApplKey(orchRes.name))

\* process_vlan_config or delete_vlan returns an error in this step
OrchHandlerFails ==
    /\ orchTask.before # <<>>
    /\ orchRes' # orchRes
    /\ orchRes'.res # "Ok"

\* C36 (violated): orchd's projection is all-or-nothing. Whenever process_vlan_config
\* or delete_vlan returns an error, Appl and orchd's map are exactly as they were when
\* it was called and nothing was published on VLAN_TABLE.
C36_ProjectionAllOrNothing ==
    [][OrchHandlerFails =>
          /\ db'["Appl"] = orchTask.before[1].appl
          /\ orchVlans' = orchTask.before[1].vlans
          /\ arrived'[VLAN_CH] = orchTask.before[1].published]_vars

\* the vendor's live VLAN objects: created with SUCCESS and not yet removed with SUCCESS
LiveOids == DOMAIN hw

\* C37: no untracked hardware VLAN within one run of syncd. Whenever no handler of
\* syncd is mid-execution, every live OID is the one recorded in syncd's map for its
\* VLAN id, and every OID of the map is a live object carrying that VLAN id.
C37_NoUntrackedHwVlan ==
    syncTask.pc = "recv" =>
        /\ \A oid \in LiveOids :
               Has(syncVlans, hw[oid]) /\ syncVlans[hw[oid]].sai_oid = oid
        /\ \A vid \in SyncTracked :
               syncVlans[vid].sai_oid \in LiveOids /\ hw[syncVlans[vid].sai_oid] = vid

\* C37 witness: two VLANs were created and one removed; the live object is the tracked one
C37_Witness ==
    /\ syncTask.pc = "recv" /\ issued = 2
    /\ Cardinality(LiveOids) = 1 /\ Cardinality(SyncTracked) = 1
    /\ syncRes.call.fn = "remove_vlan" /\ syncRes.call.status = "SUCCESS"

\* C38 (violated): the subscribe loop ends only on channel closure. With pub/sub
\* streams that never end, no subscribe call returns, whatever the messages contain and
\* whatever happens in the handlers: no daemon has left its loop.
C38_LoopEndsOnlyOnClosure ==
    /\ orchTask.pc # "exited" /\ orchTask.exit = <<>>
    /\ syncTask.pc # "exited" /\ syncTask.exit = <<>>

\* a wrapper call that has returned, and the parts of it
WrapperDone == calc.fn = "Wrapper" /\ Len(calc.out) = 2
\* C39: a wrapper returns Ok exactly when the table entry is present and the vendor
\* said SUCCESS; with the entry absent the vendor is not called and the error is the
\* Sai error of status NOT_IMPLEMENTED; every error carries the status it came from.
C39_WrappersFailClosed ==
    WrapperDone =>
        /\ calc.out[2].ok <=> (calc.arg.present /\ calc.arg.answer = "SUCCESS")
        /\ calc.out[1].called <=> calc.arg.present
        /\ ~calc.arg.present =>
             /\ ~calc.out[2].ok
             /\ calc.out[2].err = "Sai"
             /\ calc.out[2].text.msg = "NOT_IMPLEMENTED"
        /\ (calc.arg.present /\ calc.arg.answer # "SUCCESS") =>
             /\ ~calc.out[2].ok
             /\ calc.out[2].err = "Sai"
             /\ calc.out[2].text.code = calc.arg.answer
C39_Witness ==
    /\ WrapperDone
    /\ ~calc.arg.present
    /\ calc.arg.answer = "SUCCESS"
    /\ ~calc.out[1].called
    /\ ~calc.out[2].ok

\* positions in the adapter's log
LogOf(call) == {i \in 1..Len(calc.out) : calc.out[i].call = call}
LoadResult == {calc.out[i].status : i \in LogOf("return")}
InitializeFailed == \E i \in LogOf("api_initialize") : calc.out[i].status # "SUCCESS"
QueryFailed ==
    \E i \in LogOf("api_query") : calc.out[i].status # "SUCCESS" \/ calc.out[i].out = "null"
\* the order of the calls: one api_initialize before every api_query, one
\* api_uninitialize and only after load returned Ok
AdapterCallOrder ==
    /\ Cardinality(LogOf("api_initialize")) <= 1
    /\ \A q \in LogOf("api_query") : \E i \in LogOf("api_initialize") : i < q
    /\ Cardinality(LogOf("api_uninitialize")) <= 1
    /\ \A u \in LogOf("api_uninitialize") :
         \E r \in LogOf("return") : r < u /\ calc.out[r].status = "Ok"
    /\ LoadResult = {"Ok"} => Cardinality(LogOf("api_initialize")) = 1
\* C40: api_initialize is called once and before any api_query; when it returns a
\* nonzero status load fails with LibraryLoad and no api_query is issued; a failed
\* api_query or a null table fails load; api_uninitialize is called once, when a
\* successfully loaded adapter is dropped.
C40_LoadSequence ==
    calc.fn = "SaiAdapter" =>
        /\ AdapterCallOrder
        /\ InitializeFailed => LoadResult = {"LibraryLoad"} /\ LogOf("api_query") = {}
        /\ QueryFailed => LoadResult # {} /\ "Ok" \notin LoadResult
====
